---- MODULE Spec2Model ----
(***************************************************************************)
(* A model of src/mai.py: the JSON-file store (DatabaseManager), the       *)
(* subscription engine (SubscriptionManager), the session pool             *)
(* (SessionManager), the download coordinator (StoryDownloader), the       *)
(* front end's download handler (StoryBot.download_single_story) and the   *)
(* daily job (scheduled_tasks).                                            *)
(*                                                                         *)
(* Every coroutine is a task with a program counter.  One action is one    *)
(* stretch of code that runs without giving up the event loop: the effect  *)
(* of one awaited I/O call on the shared state, followed by the code up to *)
(* the next await.  Time is counted in ticks, TicksPerDay of them to the   *)
(* day; timedelta(days=d) is d * TicksPerDay ticks.                        *)
(***************************************************************************)
EXTENDS Integers, Sequences, FiniteSets, TLC

VARIABLES
    now,                     \* datetime.now(), in ticks
    users,                   \* the content of users.json: str(user_id) -> dict
    codes,                   \* the content of codes.json: code -> dict
    sessions,                \* SessionManager.sessions: the names that hold a client
    active_sessions,         \* SessionManager.active_sessions
    session_rotation_index,  \* SessionManager.session_rotation_index
    tasks,                   \* the running coroutines: position and local variables
    calls,                   \* history: number of top-level calls started
    successes,               \* history: per code, activate_code calls that returned True
    completed,               \* history: per user, downloads completed since the last
                             \* reset of the daily counter
    picked,                  \* history: the indices get_next_client has read and the
                             \* clients it has returned, in order, since the active
                             \* list last changed
    active_downloads,        \* StoryBot.active_downloads: user_id -> list of task ids
    handlers,                \* the running download_single_story handlers
    sweep,                   \* the running scheduled_tasks job
    cache,                   \* StoryDownloader.cache
    log                      \* history: per user, the stamps of the resets
                             \* check_subscription has saved, the download_story
                             \* calls that have succeeded, and the lifetime count
                             \* stored at the start

\* the state of StoryBot's front end and of the scheduler's job
bot_vars == <<active_downloads, handlers, sweep, cache>>

vars == <<now, users, codes, sessions, active_sessions, session_rotation_index,
          tasks, calls, successes, completed, picked, bot_vars, log>>

-----------------------------------------------------------------------------
(* Bounds of the model *)

TicksPerDay == 2
MaxTime == 3
MaxCalls == 3
MaxFloods == 2
MaxPicks == 4

\* FloodWaitError.seconds, in ticks
FloodSeconds == {1, 2}

UserIds == {1, 2}
CodeIds == {"ABCD1234WXYZ", "UNKNOWN"}
Tasks == {1, 2}

-----------------------------------------------------------------------------
(* Python values *)

\* None, and JSON null
None == <<>>

\* an Optional value that is set
Some(x) == <<x>>

\* True and False, where a coroutine returns a bool or raises
Bool(b) == <<"bool", b>>

\* datetime.isoformat() and datetime.fromisoformat()
Iso(t) == <<"iso", t>>
FromIso(s) == s[2]

\* timedelta(days=d)
Days(d) == d * TicksPerDay

\* timedelta.days of the difference a - b: whole elapsed days, rounded down
ElapsedDays(a, b) == (a - b) \div TicksPerDay

\* list.remove(x): the list without the first x
RECURSIVE ListRemove(_, _)
ListRemove(list, x) ==
    IF list = <<>> THEN <<>>
    ELSE IF Head(list) = x THEN Tail(list)
    ELSE <<Head(list)>> \o ListRemove(Tail(list), x)

\* SubscriptionTier.value and SubscriptionTier(value)
TierValue(tier) ==
    CASE tier = "FREE" -> "free"
      [] tier = "PREMIUM" -> "premium"
      [] tier = "ULTRA" -> "ultra"

SubscriptionTier(value) ==
    CASE value = "free" -> "FREE"
      [] value = "premium" -> "PREMIUM"
      [] value = "ultra" -> "ULTRA"

-----------------------------------------------------------------------------
(* Config *)

FREE_DAILY_LIMIT == 5
PREMIUM_DAILY_LIMIT == 50
FREE_CONCURRENT == 1
PREMIUM_CONCURRENT == 3
ULTRA_CONCURRENT == 10

-----------------------------------------------------------------------------
(* Data classes and DatabaseManager *)

\* UserData(user_id, username) with the dataclass defaults, created at time t
UserData(user_id, t) ==
    [user_id |-> user_id,
     username |-> "name",
     subscription_tier |-> "FREE",
     subscription_ends |-> None,
     daily_downloads |-> 0,
     total_downloads |-> 0,
     last_reset |-> t,
     followed_accounts |-> <<>>,
     settings |-> "defaults"]

\* the dict save_user writes for a UserData
UserToJson(ud) ==
    [user_id |-> ud.user_id,
     username |-> ud.username,
     subscription_tier |-> TierValue(ud.subscription_tier),
     subscription_ends |-> IF ud.subscription_ends # None
                           THEN Iso(ud.subscription_ends[1]) ELSE None,
     daily_downloads |-> ud.daily_downloads,
     total_downloads |-> ud.total_downloads,
     last_reset |-> Iso(ud.last_reset),
     followed_accounts |-> ud.followed_accounts,
     settings |-> ud.settings]

\* the UserData get_user builds from a stored dict
UserFromJson(j) ==
    [user_id |-> j.user_id,
     username |-> j.username,
     subscription_tier |-> SubscriptionTier(j.subscription_tier),
     subscription_ends |-> IF j.subscription_ends # None
                           THEN Some(FromIso(j.subscription_ends)) ELSE None,
     daily_downloads |-> j.daily_downloads,
     total_downloads |-> j.total_downloads,
     last_reset |-> FromIso(j.last_reset),
     followed_accounts |-> j.followed_accounts,
     settings |-> j.settings]

\* get_user on the file content data: Optional[UserData]
get_user(data, user_id) ==
    IF user_id \in DOMAIN data THEN Some(UserFromJson(data[user_id])) ELSE None

\* what save_user writes: the file content it loaded, with the user's entry replaced
save_user(data, ud) ==
    [k \in DOMAIN data \cup {ud.user_id} |->
        IF k = ud.user_id THEN UserToJson(ud) ELSE data[k]]

\* SubscriptionCode(code, tier, duration, max_uses, expires_at=...) created at time t
SubscriptionCode(code, tier, duration, max_uses, expires_at, t) ==
    [code |-> code,
     tier |-> tier,
     duration |-> duration,
     max_uses |-> max_uses,
     used_count |-> 0,
     created_at |-> t,
     expires_at |-> expires_at]

CodeToJson(cd) ==
    [code |-> cd.code,
     tier |-> TierValue(cd.tier),
     duration |-> cd.duration,
     max_uses |-> cd.max_uses,
     used_count |-> cd.used_count,
     created_at |-> Iso(cd.created_at),
     expires_at |-> IF cd.expires_at # None THEN Iso(cd.expires_at[1]) ELSE None]

CodeFromJson(j) ==
    [code |-> j.code,
     tier |-> SubscriptionTier(j.tier),
     duration |-> j.duration,
     max_uses |-> j.max_uses,
     used_count |-> j.used_count,
     created_at |-> FromIso(j.created_at),
     expires_at |-> IF j.expires_at # None THEN Some(FromIso(j.expires_at)) ELSE None]

get_code(data, code) ==
    IF code \in DOMAIN data THEN Some(CodeFromJson(data[code])) ELSE None

save_code(data, cd) ==
    [k \in DOMAIN data \cup {cd.code} |->
        IF k = cd.code THEN CodeToJson(cd) ELSE data[k]]

-----------------------------------------------------------------------------
(* Tasks *)

\* a coroutine that is not running
IdleTask ==
    [pc |-> "idle",
     op |-> "none",
     user_id |-> 0,
     code |-> "",
     name |-> "",           \* add_session's / remove_session's name
     user_data |-> None,    \* the caller's user_data (activate_code, download_story)
     cs_user |-> None,      \* check_subscription's user_data
     code_data |-> None,    \* activate_code's code_data
     data |-> None,         \* save_user's / save_code's data, between load and write
     tier |-> "",           \* download_story's tier
     client |-> None,       \* download_story's client
     seconds |-> 0,         \* FloodWaitError.seconds of the signal being waited out
     wake |-> 0,            \* when asyncio.sleep is over
     ret |-> None,          \* the value returned, or the exception raised
     pre |-> None,          \* history: the stores and the clock when the call began
     until |-> 0,           \* history: the clock when the call returned
     answer |-> "",         \* history: the backend's last answer to this call
     floods |-> 0,          \* history: rate-limit signals this call has received
     retries |-> 0,         \* history: times this call has started over
     flood_at |-> 0]        \* history: when the last signal came

Snapshot ==
    [users |-> users, codes |-> codes, now |-> now,
     session_rotation_index |-> session_rotation_index,
     sessions |-> sessions, active_sessions |-> active_sessions]

Running(t) == tasks[t].pc \notin {"idle", "done"}

\* a task may begin a call when it is not running one
CanCall(t) == ~Running(t) /\ calls < MaxCalls

Begin(t, op, user_id, code, pc) ==
    /\ CanCall(t)
    /\ tasks' = [tasks EXCEPT ![t] =
            [IdleTask EXCEPT !.pc = pc, !.op = op, !.user_id = user_id,
                             !.code = code, !.pre = Some(Snapshot)]]
    /\ calls' = calls + 1

\* the task returns ret (or raises it) to its caller
Return(tk, ret) ==
    [tk EXCEPT !.pc = "done", !.ret = ret, !.user_data = None, !.cs_user = None,
               !.code_data = None, !.data = None, !.tier = "", !.client = None,
               !.seconds = 0, !.wake = 0, !.until = now]

-----------------------------------------------------------------------------
(* SubscriptionManager.check_subscription *)

\* a slip: the expiry compared in whole days, so that a subscription counts as
\* running for up to a day after its end
SubscriptionExpired_ByDay(ud, t) ==
    ud.subscription_ends # None /\ ElapsedDays(t, ud.subscription_ends[1]) >= 1

\* the subscription has run out at time t
SubscriptionExpired(ud, t) ==
    ud.subscription_ends # None /\ t > ud.subscription_ends[1]

\* the daily counter is due for a reset at time t
ResetDue(ud, t) == ElapsedDays(t, ud.last_reset) >= 1

Demoted(ud) ==
    [ud EXCEPT !.subscription_tier = "FREE", !.subscription_ends = None]

ResetDaily(ud, t) ==
    [ud EXCEPT !.daily_downloads = 0, !.last_reset = t]

\* check_subscription returns (tier, ends): to the front end, or into download_story
CsReturn(tk, tier, ends) ==
    IF tk.op = "check_subscription"
    THEN Return(tk, <<tier, ends>>)
    ELSE [tk EXCEPT !.pc = "dl_limit", !.tier = tier, !.cs_user = None, !.data = None]

\* from the reset check to the next await
CsResetCheck(tk, t) ==
    LET ud == tk.cs_user[1] IN
    IF ResetDue(ud, t)
    THEN [tk EXCEPT !.cs_user = Some(ResetDaily(ud, t)), !.pc = "cs_reset_load"]
    ELSE CsReturn(tk, ud.subscription_tier, ud.subscription_ends)

\* from the expiry check to the next await
CsExpiryCheck(tk, t) ==
    LET ud == tk.cs_user[1] IN
    IF SubscriptionExpired(ud, t)
    THEN [tk EXCEPT !.cs_user = Some(Demoted(ud)), !.pc = "cs_expired_load"]
    ELSE CsResetCheck(tk, t)

CallCheckSubscription(t, user_id) ==
    /\ Begin(t, "check_subscription", user_id, "", "cs_get_user")
    /\ UNCHANGED <<now, users, codes, sessions, active_sessions,
                   session_rotation_index, successes, completed,
                   picked, bot_vars, log>>

\* user_data = await self.db.get_user(user_id), and on to the next await
cs_get_user(t) ==
    /\ tasks[t].pc = "cs_get_user"
    /\ LET ud == get_user(users, tasks[t].user_id)
           tk == [tasks[t] EXCEPT !.cs_user = ud]
       IN  tasks' = [tasks EXCEPT ![t] =
                IF ud = None THEN CsReturn(tk, "FREE", None)
                ELSE CsExpiryCheck(tk, now)]
    /\ UNCHANGED <<now, users, codes, sessions, active_sessions,
                   session_rotation_index, calls, successes, completed,
                   picked, bot_vars, log>>

\* save_user of the demoted record: data = await self.load_json(...)
cs_expired_load(t) ==
    /\ tasks[t].pc = "cs_expired_load"
    /\ tasks' = [tasks EXCEPT ![t] =
            [tasks[t] EXCEPT !.data = Some(users), !.pc = "cs_expired_write"]]
    /\ UNCHANGED <<now, users, codes, sessions, active_sessions,
                   session_rotation_index, calls, successes, completed,
                   picked, bot_vars, log>>

\* save_user of the demoted record: await self.save_json(...), then the reset check
cs_expired_write(t) ==
    /\ tasks[t].pc = "cs_expired_write"
    /\ users' = save_user(tasks[t].data[1], tasks[t].cs_user[1])
    /\ tasks' = [tasks EXCEPT ![t] =
            CsResetCheck([tasks[t] EXCEPT !.data = None], now)]
    /\ UNCHANGED <<now, codes, sessions, active_sessions,
                   session_rotation_index, calls, successes, completed,
                   picked, bot_vars, log>>

\* save_user of the reset record: data = await self.load_json(...)
cs_reset_load(t) ==
    /\ tasks[t].pc = "cs_reset_load"
    /\ tasks' = [tasks EXCEPT ![t] =
            [tasks[t] EXCEPT !.data = Some(users), !.pc = "cs_reset_write"]]
    /\ UNCHANGED <<now, users, codes, sessions, active_sessions,
                   session_rotation_index, calls, successes, completed,
                   picked, bot_vars, log>>

\* save_user of the reset record: await self.save_json(...), then the return
cs_reset_write(t) ==
    /\ tasks[t].pc = "cs_reset_write"
    /\ LET ud == tasks[t].cs_user[1] IN
        /\ users' = save_user(tasks[t].data[1], ud)
        /\ tasks' = [tasks EXCEPT ![t] =
                CsReturn(tasks[t], ud.subscription_tier, ud.subscription_ends)]
        /\ completed' = [completed EXCEPT ![ud.user_id] = 0]
        /\ log' = [log EXCEPT !.resets[ud.user_id] = Append(@, ud.last_reset)]
    /\ UNCHANGED <<now, codes, sessions, active_sessions,
                   session_rotation_index, calls, successes,
                   picked, bot_vars>>

check_subscription(t) ==
    \/ cs_get_user(t)
    \/ cs_expired_load(t)
    \/ cs_expired_write(t)
    \/ cs_reset_load(t)
    \/ cs_reset_write(t)

-----------------------------------------------------------------------------
(* SubscriptionManager.activate_code *)

InvalidCode == "Invalid code"
CodeExpired == "Code has expired"
CodeExhausted == "Code usage limit reached"
UserNotFound == "User not found"
Activated == "subscription activated"

\* a slip: the exhaustion check made before the expiry check
CodeRefusal_ExhaustedFirst(code_data, t) ==
    IF code_data = None THEN InvalidCode
    ELSE IF code_data[1].used_count >= code_data[1].max_uses THEN CodeExhausted
    ELSE IF code_data[1].expires_at # None /\ t > code_data[1].expires_at[1]
         THEN CodeExpired
    ELSE ""

\* a slip: the exhaustion check off by one
CodeRefusal_OffByOne(code_data, t) ==
    IF code_data = None THEN InvalidCode
    ELSE IF code_data[1].expires_at # None /\ t > code_data[1].expires_at[1]
         THEN CodeExpired
    ELSE IF code_data[1].used_count > code_data[1].max_uses THEN CodeExhausted
    ELSE ""

\* the checks made on the loaded code, in the order of the code: the message of the
\* first one that fails, "" when none does
CodeRefusal(code_data, t) ==
    IF code_data = None THEN InvalidCode
    ELSE IF code_data[1].expires_at # None /\ t > code_data[1].expires_at[1]
         THEN CodeExpired
    ELSE IF code_data[1].used_count >= code_data[1].max_uses THEN CodeExhausted
    ELSE ""

\* a slip: a running subscription extended from its present end
Subscribed_Extends(ud, cd, t) ==
    [ud EXCEPT !.subscription_tier = cd.tier,
               !.subscription_ends =
                    IF ud.subscription_ends # None
                    THEN Some(ud.subscription_ends[1] + Days(cd.duration))
                    ELSE Some(t + Days(cd.duration))]

\* the user record activate_code builds at time t
Subscribed(ud, cd, t) ==
    [ud EXCEPT !.subscription_tier = cd.tier,
               !.subscription_ends = Some(t + Days(cd.duration))]

\* the code record activate_code builds
Used(cd) == [cd EXCEPT !.used_count = cd.used_count + 1]

CallActivateCode(t, user_id, code) ==
    /\ Begin(t, "activate_code", user_id, code, "ac_get_code")
    /\ UNCHANGED <<now, users, codes, sessions, active_sessions,
                   session_rotation_index, successes, completed,
                   picked, bot_vars, log>>

\* code_data = await self.db.get_code(code), and the three checks on it
ac_get_code(t) ==
    /\ tasks[t].pc = "ac_get_code"
    /\ LET cd == get_code(codes, tasks[t].code)
           refusal == CodeRefusal(cd, now)
       IN  tasks' = [tasks EXCEPT ![t] =
                IF refusal # "" THEN Return(tasks[t], <<FALSE, refusal>>)
                ELSE [tasks[t] EXCEPT !.code_data = cd, !.pc = "ac_get_user"]]
    /\ UNCHANGED <<now, users, codes, sessions, active_sessions,
                   session_rotation_index, calls, successes, completed,
                   picked, bot_vars, log>>

\* user_data = await self.db.get_user(user_id), and the two updates in memory
ac_get_user(t) ==
    /\ tasks[t].pc = "ac_get_user"
    /\ LET ud == get_user(users, tasks[t].user_id)
           cd == tasks[t].code_data[1]
       IN  tasks' = [tasks EXCEPT ![t] =
                IF ud = None THEN Return(tasks[t], <<FALSE, UserNotFound>>)
                ELSE [tasks[t] EXCEPT !.user_data = Some(Subscribed(ud[1], cd, now)),
                                      !.code_data = Some(Used(cd)),
                                      !.pc = "ac_save_code_load"]]
    /\ UNCHANGED <<now, users, codes, sessions, active_sessions,
                   session_rotation_index, calls, successes, completed,
                   picked, bot_vars, log>>

\* save_code: data = await self.load_json(Config.CODES_DB)
ac_save_code_load(t) ==
    /\ tasks[t].pc = "ac_save_code_load"
    /\ tasks' = [tasks EXCEPT ![t] =
            [tasks[t] EXCEPT !.data = Some(codes), !.pc = "ac_save_code_write"]]
    /\ UNCHANGED <<now, users, codes, sessions, active_sessions,
                   session_rotation_index, calls, successes, completed,
                   picked, bot_vars, log>>

\* save_code: await self.save_json(Config.CODES_DB, data)
ac_save_code_write(t) ==
    /\ tasks[t].pc = "ac_save_code_write"
    /\ codes' = save_code(tasks[t].data[1], tasks[t].code_data[1])
    /\ tasks' = [tasks EXCEPT ![t] =
            [tasks[t] EXCEPT !.data = None, !.pc = "ac_save_user_load"]]
    /\ UNCHANGED <<now, users, sessions, active_sessions,
                   session_rotation_index, calls, successes, completed,
                   picked, bot_vars, log>>

\* save_user: data = await self.load_json(Config.USERS_DB)
ac_save_user_load(t) ==
    /\ tasks[t].pc = "ac_save_user_load"
    /\ tasks' = [tasks EXCEPT ![t] =
            [tasks[t] EXCEPT !.data = Some(users), !.pc = "ac_save_user_write"]]
    /\ UNCHANGED <<now, users, codes, sessions, active_sessions,
                   session_rotation_index, calls, successes, completed,
                   picked, bot_vars, log>>

\* save_user: await self.save_json(Config.USERS_DB, data), and return True
ac_save_user_write(t) ==
    /\ tasks[t].pc = "ac_save_user_write"
    /\ users' = save_user(tasks[t].data[1], tasks[t].user_data[1])
    /\ tasks' = [tasks EXCEPT ![t] = Return(tasks[t], <<TRUE, Activated>>)]
    /\ successes' = [successes EXCEPT ![tasks[t].code] = @ + 1]
    /\ UNCHANGED <<now, codes, sessions, active_sessions,
                   session_rotation_index, calls, completed,
                   picked, bot_vars, log>>

activate_code(t) ==
    \/ ac_get_code(t)
    \/ ac_get_user(t)
    \/ ac_save_code_load(t)
    \/ ac_save_code_write(t)
    \/ ac_save_user_load(t)
    \/ ac_save_user_write(t)

-----------------------------------------------------------------------------
(* SubscriptionManager.create_code *)

\* hashlib.sha256(f"{tier}{duration_days}{datetime.now()}")...[:12].upper(): the
\* token is a function of the tier, the duration and the clock and of nothing
\* else; digests of different inputs are taken to differ
Token(tier, duration_days, t) == <<"sha256", tier, duration_days, t>>

\* expires_at: None unless expires_in_days is given and is not 0
ExpiresAt(expires_in_days, t) ==
    IF expires_in_days # None /\ expires_in_days[1] # 0
    THEN Some(t + Days(expires_in_days[1]))
    ELSE None

\* the call, up to the load of save_code: the token and the record are made
CallCreateCode(t, tier, duration_days, max_uses, expires_in_days) ==
    /\ CanCall(t)
    /\ LET code == Token(tier, duration_days, now)
           code_data == SubscriptionCode(code, tier, duration_days, max_uses,
                                         ExpiresAt(expires_in_days, now), now) IN
        tasks' = [tasks EXCEPT ![t] =
            [IdleTask EXCEPT !.pc = "cc_save_load", !.op = "create_code",
                             !.code = code, !.code_data = Some(code_data),
                             !.pre = Some(Snapshot)]]
    /\ calls' = calls + 1
    /\ UNCHANGED <<now, users, codes, sessions, active_sessions,
                   session_rotation_index, successes, completed,
                   picked, bot_vars, log>>

\* save_code: data = await self.load_json(Config.CODES_DB)
cc_save_load(t) ==
    /\ tasks[t].pc = "cc_save_load"
    /\ tasks' = [tasks EXCEPT ![t] =
            [tasks[t] EXCEPT !.data = Some(codes), !.pc = "cc_save_write"]]
    /\ UNCHANGED <<now, users, codes, sessions, active_sessions,
                   session_rotation_index, calls, successes, completed,
                   picked, bot_vars, log>>

\* save_code: await self.save_json(Config.CODES_DB, data), and the token returned
cc_save_write(t) ==
    /\ tasks[t].pc = "cc_save_write"
    /\ codes' = save_code(tasks[t].data[1], tasks[t].code_data[1])
    /\ tasks' = [tasks EXCEPT ![t] = Return(tasks[t], tasks[t].code)]
    /\ UNCHANGED <<now, users, sessions, active_sessions,
                   session_rotation_index, calls, successes, completed,
                   picked, bot_vars, log>>

create_code(t) ==
    \/ cc_save_load(t)
    \/ cc_save_write(t)

-----------------------------------------------------------------------------
(* SessionManager.get_next_client *)

\* a slip: the cursor advanced by two
NextIndex_ByTwo(index, n) == (index + 2) % n

\* the cursor after one advance over n active sessions
NextIndex(index, n) == (index + 1) % n

\* self.active_sessions[i], a Python list
ListItem(list, i) == list[i + 1]

\* self.sessions.get(session_name): the client held under the name, or None
SessionsGet(name) == IF name \in sessions THEN Some(name) ELSE None

\* a slip: the session read at the cursor as it was before the advance
NextClient_BeforeAdvance ==
    IF active_sessions = <<>> THEN None
    ELSE SessionsGet(ListItem(active_sessions,
                              session_rotation_index % Len(active_sessions)))

\* the value get_next_client returns
NextClient ==
    IF active_sessions = <<>> THEN None
    ELSE SessionsGet(ListItem(active_sessions,
                              NextIndex(session_rotation_index, Len(active_sessions))))

\* a slip: the cursor read but not advanced
get_next_client_NoAdvance ==
    /\ picked' = IF active_sessions = <<>> THEN picked
                  ELSE Append(picked,
                              [index |-> session_rotation_index % Len(active_sessions),
                               client |-> NextClient])
    /\ UNCHANGED <<sessions, active_sessions, session_rotation_index>>

\* what get_next_client does to the pool
get_next_client ==
    /\ session_rotation_index' =
          IF active_sessions = <<>> THEN session_rotation_index
          ELSE NextIndex(session_rotation_index, Len(active_sessions))
    /\ picked' = IF active_sessions = <<>> THEN picked
                  ELSE Append(picked,
                              [index |-> NextIndex(session_rotation_index,
                                                   Len(active_sessions)),
                               client |-> NextClient])
    /\ UNCHANGED <<sessions, active_sessions>>

-----------------------------------------------------------------------------
\* a call of get_next_client from outside the downloader: it has no await, and
\* runs from its call to its return in one step
CallGetNextClient(t) ==
    /\ ~Running(t)
    /\ Len(picked) < MaxPicks
    /\ get_next_client
    /\ tasks' = [tasks EXCEPT ![t] =
            Return([IdleTask EXCEPT !.op = "get_next_client",
                                    !.pre = Some(Snapshot)], NextClient)]
    /\ UNCHANGED <<now, users, codes, calls, successes, completed, bot_vars, log>>

-----------------------------------------------------------------------------
(* SessionManager.add_session and SessionManager.remove_session *)

\* what the backend may answer to is_user_authorized
AuthorizedAnswers == {"authorized", "unauthorized", "raise"}

CallAddSession(t, name) ==
    /\ CanCall(t)
    /\ calls' = calls + 1
    /\ tasks' = [tasks EXCEPT ![t] =
            [IdleTask EXCEPT !.pc = "as_connect", !.op = "add_session",
                             !.name = name, !.pre = Some(Snapshot)]]
    /\ UNCHANGED <<now, users, codes, sessions, active_sessions,
                   session_rotation_index, successes, completed,
                   picked, bot_vars, log>>

\* await client.connect(): done, or raised into the except block
as_connect(t, connected) ==
    /\ tasks[t].pc = "as_connect"
    /\ tasks' = [tasks EXCEPT ![t] =
            IF connected THEN [tasks[t] EXCEPT !.pc = "as_authorized"]
            ELSE Return([tasks[t] EXCEPT !.answer = "raise"], Bool(FALSE))]
    /\ UNCHANGED <<now, users, codes, sessions, active_sessions,
                   session_rotation_index, calls, successes, completed,
                   picked, bot_vars, log>>

\* a slip: the name put at the head of the list
Appended_AtHead(list, name) == <<name>> \o list

\* self.active_sessions.append(name)
Appended(list, name) == Append(list, name)

\* await client.is_user_authorized(), and the rest of add_session
as_authorized(t, answer) ==
    /\ tasks[t].pc = "as_authorized"
    /\ IF answer = "authorized"
       THEN /\ sessions' = sessions \cup {tasks[t].name}
            /\ active_sessions' = Appended(active_sessions, tasks[t].name)
            /\ picked' = << >>
            /\ tasks' = [tasks EXCEPT ![t] =
                    Return([tasks[t] EXCEPT !.answer = answer], Bool(TRUE))]
       ELSE /\ tasks' = [tasks EXCEPT ![t] =
                    Return([tasks[t] EXCEPT !.answer = answer], Bool(FALSE))]
            /\ UNCHANGED <<sessions, active_sessions, picked>>
    /\ UNCHANGED <<now, users, codes, session_rotation_index, calls, successes,
                   completed, bot_vars, log>>

add_session(t) ==
    \/ \E connected \in BOOLEAN : as_connect(t, connected)
    \/ \E answer \in AuthorizedAnswers : as_authorized(t, answer)

CallRemoveSession(t, name) ==
    /\ CanCall(t)
    /\ calls' = calls + 1
    /\ tasks' = [tasks EXCEPT ![t] =
            [IdleTask EXCEPT !.pc = "rs_check", !.op = "remove_session",
                             !.name = name, !.pre = Some(Snapshot)]]
    /\ UNCHANGED <<now, users, codes, sessions, active_sessions,
                   session_rotation_index, successes, completed,
                   picked, bot_vars, log>>

\* if name in self.sessions, up to await self.sessions[name].disconnect()
rs_check(t) ==
    /\ tasks[t].pc = "rs_check"
    /\ tasks' = [tasks EXCEPT ![t] =
            IF tasks[t].name \in sessions
            THEN [tasks[t] EXCEPT !.pc = "rs_disconnect"]
            ELSE Return(tasks[t], Bool(FALSE))]
    /\ UNCHANGED <<now, users, codes, sessions, active_sessions,
                   session_rotation_index, calls, successes, completed,
                   picked, bot_vars, log>>

\* what remove_session raises
DisconnectFailed == <<"raise", "disconnect">>
KeyError == <<"raise", "KeyError">>

\* await self.sessions[name].disconnect(), del self.sessions[name] and
\* self.active_sessions.remove(name); the disconnect may raise, and so does the del
\* of a name that is gone
rs_disconnect(t, disconnected) ==
    /\ tasks[t].pc = "rs_disconnect"
    /\ IF ~disconnected
       THEN /\ tasks' = [tasks EXCEPT ![t] = Return(tasks[t], DisconnectFailed)]
            /\ UNCHANGED <<sessions, active_sessions, picked>>
       ELSE IF tasks[t].name \notin sessions
       THEN /\ tasks' = [tasks EXCEPT ![t] = Return(tasks[t], KeyError)]
            /\ UNCHANGED <<sessions, active_sessions, picked>>
       ELSE /\ sessions' = sessions \ {tasks[t].name}
            /\ active_sessions' = ListRemove(active_sessions, tasks[t].name)
            /\ picked' = << >>
            /\ tasks' = [tasks EXCEPT ![t] = Return(tasks[t], Bool(TRUE))]
    /\ UNCHANGED <<now, users, codes, session_rotation_index, calls, successes,
                   completed, bot_vars, log>>

remove_session(t) ==
    \/ rs_check(t)
    \/ \E disconnected \in BOOLEAN : rs_disconnect(t, disconnected)

-----------------------------------------------------------------------------
(* StoryDownloader.download_story *)

\* what download_story hands to its caller
DailyLimitReached == <<"raise", "Daily download limit reached">>
NoActiveSessions == <<"raise", "No active sessions available">>
FilePath == <<"file_path">>

\* user_data.daily_downloads >= limits[tier], with float('inf') for Ultra
QuotaReached(ud, tier) ==
    CASE tier = "FREE" -> ud.daily_downloads >= FREE_DAILY_LIMIT
      [] tier = "PREMIUM" -> ud.daily_downloads >= PREMIUM_DAILY_LIMIT
      [] tier = "ULTRA" -> FALSE

\* a slip: the lifetime counter forgotten
Counted_DailyOnly(ud) ==
    [ud EXCEPT !.daily_downloads = ud.daily_downloads + 1]

\* the user record download_story saves after a download
Counted(ud) ==
    [ud EXCEPT !.daily_downloads = ud.daily_downloads + 1,
               !.total_downloads = ud.total_downloads + 1]

\* what the backend may answer to get_entity and GetStoriesByIDRequest: a story
\* with a photo, with a document or with other media, no story, an error, or a
\* rate-limit signal; and to download_media
FetchAnswers == {"photo", "document", "other_media", "no_story", "error", "flood"}
MediaAnswers == {"downloaded", "error", "flood"}

CallDownloadStory(t, user_id) ==
    /\ Begin(t, "download_story", user_id, "", "dl_get_user")
    /\ UNCHANGED <<now, users, codes, sessions, active_sessions,
                   session_rotation_index, successes, completed,
                   picked, bot_vars, log>>

\* user_data = await self.db.get_user(user_id), and the call of check_subscription
dl_get_user(t) ==
    /\ tasks[t].pc = "dl_get_user"
    /\ LET ud == get_user(users, tasks[t].user_id) IN
        tasks' = [tasks EXCEPT ![t] =
            IF ud = None THEN Return(tasks[t], None)
            ELSE [tasks[t] EXCEPT !.user_data = ud, !.pc = "cs_get_user"]]
    /\ UNCHANGED <<now, users, codes, sessions, active_sessions,
                   session_rotation_index, calls, successes, completed,
                   picked, bot_vars, log>>

\* a slip: the client taken from the pool before the quota check
dl_limit_ClientFirst(t) ==
    /\ tasks[t].pc = "dl_limit"
    /\ get_next_client
    /\ tasks' = [tasks EXCEPT ![t] =
          IF QuotaReached(tasks[t].user_data[1], tasks[t].tier)
          THEN Return(tasks[t], <<"raise", "Daily download limit reached">>)
          ELSE IF NextClient = None
               THEN Return(tasks[t], <<"raise", "No active sessions available">>)
          ELSE [tasks[t] EXCEPT !.client = NextClient, !.pc = "dl_fetch"]]
    /\ UNCHANGED <<now, users, codes, calls, successes, completed, bot_vars, log>>

\* from the return of check_subscription to await client.get_entity(username): the
\* quota check on user_data and get_next_client
dl_limit(t) ==
    /\ tasks[t].pc = "dl_limit"
    /\ IF QuotaReached(tasks[t].user_data[1], tasks[t].tier)
       THEN /\ tasks' = [tasks EXCEPT ![t] = Return(tasks[t], DailyLimitReached)]
            /\ UNCHANGED <<sessions, active_sessions, session_rotation_index,
                           picked>>
       ELSE /\ get_next_client
            /\ tasks' = [tasks EXCEPT ![t] =
                  IF NextClient = None THEN Return(tasks[t], NoActiveSessions)
                  ELSE [tasks[t] EXCEPT !.client = NextClient, !.pc = "dl_fetch"]]
    /\ UNCHANGED <<now, users, codes, calls, successes, completed, bot_vars, log>>

\* a slip: a cap on the retries, of one
FloodWait_OneRetry(tk, seconds, t) ==
    IF tk.floods >= 1
    THEN Return([tk EXCEPT !.answer = "flood", !.floods = tk.floods + 1], None)
    ELSE [tk EXCEPT !.pc = "dl_sleep", !.seconds = seconds, !.wake = t + seconds,
                    !.answer = "flood", !.floods = tk.floods + 1, !.flood_at = t]

\* except FloodWaitError as e: await asyncio.sleep(e.seconds)
FloodWait(tk, seconds, t) ==
    [tk EXCEPT !.pc = "dl_sleep", !.seconds = seconds, !.wake = t + seconds,
               !.answer = "flood", !.floods = tk.floods + 1, !.flood_at = t]

\* the backend answers get_entity and GetStoriesByIDRequest
dl_fetch(t, answer, seconds) ==
    /\ tasks[t].pc = "dl_fetch"
    /\ tasks' = [tasks EXCEPT ![t] =
          LET tk == [tasks[t] EXCEPT !.answer = answer] IN
          CASE answer = "flood" -> FloodWait(tk, seconds, now)
            [] answer \in {"photo", "document"} -> [tk EXCEPT !.pc = "dl_media"]
            [] OTHER -> Return(tk, None)]
    /\ UNCHANGED <<now, users, codes, sessions, active_sessions,
                   session_rotation_index, calls, successes, completed,
                   picked, bot_vars, log>>

\* the backend answers download_media; after a download, the counters are raised
\* in user_data and save_user loads the file
dl_media(t, answer, seconds) ==
    /\ tasks[t].pc = "dl_media"
    /\ tasks' = [tasks EXCEPT ![t] =
          LET tk == [tasks[t] EXCEPT !.answer = answer] IN
          CASE answer = "flood" -> FloodWait(tk, seconds, now)
            [] answer = "downloaded" ->
                  [tk EXCEPT !.user_data = Some(Counted(tk.user_data[1])),
                             !.pc = "dl_save_load"]
            [] OTHER -> Return(tk, None)]
    /\ UNCHANGED <<now, users, codes, sessions, active_sessions,
                   session_rotation_index, calls, successes, completed,
                   picked, bot_vars, log>>

\* save_user: data = await self.load_json(Config.USERS_DB)
dl_save_load(t) ==
    /\ tasks[t].pc = "dl_save_load"
    /\ tasks' = [tasks EXCEPT ![t] =
            [tasks[t] EXCEPT !.data = Some(users), !.pc = "dl_save_write"]]
    /\ UNCHANGED <<now, users, codes, sessions, active_sessions,
                   session_rotation_index, calls, successes, completed,
                   picked, bot_vars, log>>

\* save_user: await self.save_json(Config.USERS_DB, data), and return file_path
dl_save_write(t) ==
    /\ tasks[t].pc = "dl_save_write"
    /\ users' = save_user(tasks[t].data[1], tasks[t].user_data[1])
    /\ tasks' = [tasks EXCEPT ![t] = Return(tasks[t], FilePath)]
    /\ completed' = [completed EXCEPT ![tasks[t].user_id] = @ + 1]
    /\ log' = [log EXCEPT !.downloads[tasks[t].user_id] = @ + 1]
    /\ UNCHANGED <<now, codes, sessions, active_sessions,
                   session_rotation_index, calls, successes,
                   picked, bot_vars>>

\* asyncio.sleep is over: return await self.download_story(...)
dl_sleep(t) ==
    /\ tasks[t].pc = "dl_sleep"
    /\ now >= tasks[t].wake
    /\ tasks' = [tasks EXCEPT ![t] =
            [tasks[t] EXCEPT !.pc = "dl_get_user", !.user_data = None,
                             !.tier = "", !.client = None, !.seconds = 0,
                             !.wake = 0, !.answer = "",
                             !.retries = tasks[t].retries + 1]]
    /\ UNCHANGED <<now, users, codes, sessions, active_sessions,
                   session_rotation_index, calls, successes, completed,
                   picked, bot_vars, log>>

-----------------------------------------------------------------------------
(* StoryDownloader.fetch_stories *)

CallFetchStories(t) ==
    /\ Begin(t, "fetch_stories", 0, "", "fs_client")
    /\ UNCHANGED <<now, users, codes, sessions, active_sessions,
                   session_rotation_index, successes, completed,
                   picked, bot_vars, log>>

\* client = await self.session_manager.get_next_client(), up to
\* await client.get_entity(username)
fs_client(t) ==
    /\ tasks[t].pc = "fs_client"
    /\ get_next_client
    /\ tasks' = [tasks EXCEPT ![t] =
            IF NextClient = None THEN Return(tasks[t], NoActiveSessions)
            ELSE [tasks[t] EXCEPT !.client = NextClient, !.pc = "fs_stories"]]
    /\ UNCHANGED <<now, users, codes, calls, successes, completed, bot_vars, log>>

\* what fetch_stories returns: the list of stories, or [] after an exception
Stories == <<"stories">>
NoStories == <<"[]">>

\* get_entity and iter_stories have answered, or one of them has raised
fs_stories(t, answered) ==
    /\ tasks[t].pc = "fs_stories"
    /\ tasks' = [tasks EXCEPT ![t] =
            Return(tasks[t], IF answered THEN Stories ELSE NoStories)]
    /\ UNCHANGED <<now, users, codes, sessions, active_sessions,
                   session_rotation_index, calls, successes, completed,
                   picked, bot_vars, log>>

fetch_stories(t) ==
    \/ fs_client(t)
    \/ \E answered \in BOOLEAN : fs_stories(t, answered)

-----------------------------------------------------------------------------
(* StoryBot.download_single_story *)

\* a handler that is not running
IdleHandler ==
    [pc |-> "idle",
     user_id |-> 0,         \* event.sender_id
     tier |-> "",           \* the tier check_subscription returned
     task_id |-> None,      \* the task id, once made
     outcome |-> ""]        \* history: how the handler ended

\* the concurrency cap of a tier
ConcurrentCap(tier) ==
    CASE tier = "FREE" -> FREE_CONCURRENT
      [] tier = "PREMIUM" -> PREMIUM_CONCURRENT
      [] tier = "ULTRA" -> ULTRA_CONCURRENT

\* self.active_downloads.get(user_id, [])
ActiveDownloadsGet(user_id) ==
    IF user_id \in DOMAIN active_downloads THEN active_downloads[user_id] ELSE <<>>

\* f"{user_id}_{username}_{story_id}_{int(datetime.now().timestamp())}", for the
\* one story of the model
TaskId(user_id, t) == <<user_id, t>>

\* self.active_downloads[user_id].append(task_id), on a defaultdict(list)
Registered(user_id, task_id) ==
    [u \in DOMAIN active_downloads \cup {user_id} |->
        IF u = user_id THEN Append(ActiveDownloadsGet(user_id), task_id)
        ELSE active_downloads[u]]

\* a finally block that empties the user's list
Unregistered_Cleared(user_id, task_id) ==
    [u \in DOMAIN active_downloads |->
        IF u = user_id THEN << >> ELSE active_downloads[u]]

\* the finally block: the task id taken off the user's list
Unregistered(user_id, task_id) ==
    [u \in DOMAIN active_downloads |->
        IF u = user_id THEN ListRemove(active_downloads[u], task_id)
        ELSE active_downloads[u]]

\* a call made from inside a running handler: the callee starts in the task's frame
Enter(op, user_id, pc) ==
    [IdleTask EXCEPT !.pc = pc, !.op = op, !.user_id = user_id,
                     !.pre = Some(Snapshot)]

\* the handler starts and calls check_subscription
CallDownloadSingleStory(h, user_id) ==
    /\ handlers[h].pc \in {"idle", "done"}
    /\ Begin(h, "check_subscription", user_id, "", "cs_get_user")
    /\ handlers' = [handlers EXCEPT ![h] =
            [IdleHandler EXCEPT !.pc = "ds_status", !.user_id = user_id]]
    /\ UNCHANGED <<now, users, codes, sessions, active_sessions,
                   session_rotation_index, successes, completed, picked,
                   active_downloads, sweep, cache, log>>

\* check_subscription has returned: the cap check, and on to the reply that is
\* awaited next (the refusal, or the progress message)
ds_admit(h) ==
    /\ handlers[h].pc = "ds_status"
    /\ tasks[h].op = "check_subscription" /\ tasks[h].pc = "done"
    /\ LET tier == tasks[h].ret[1]
           user_id == handlers[h].user_id IN
        handlers' = [handlers EXCEPT ![h] =
            IF Len(ActiveDownloadsGet(user_id)) >= ConcurrentCap(tier)
            THEN [@ EXCEPT !.pc = "ds_refuse", !.tier = tier]
            ELSE [@ EXCEPT !.pc = "ds_progress", !.tier = tier,
                           !.task_id = Some(TaskId(user_id, now))]]
    /\ UNCHANGED <<now, users, codes, sessions, active_sessions,
                   session_rotation_index, tasks, calls, successes, completed,
                   picked, active_downloads, sweep, cache, log>>

\* await event.reply("too many active downloads"), and the return
ds_refuse(h) ==
    /\ handlers[h].pc = "ds_refuse"
    /\ handlers' = [handlers EXCEPT ![h] = [@ EXCEPT !.pc = "done",
                                                      !.outcome = "refused"]]
    /\ UNCHANGED <<now, users, codes, sessions, active_sessions,
                   session_rotation_index, tasks, calls, successes, completed,
                   picked, active_downloads, sweep, cache, log>>

\* progress_msg = await event.reply(...): when it is sent, the task id is
\* appended and download_story is called; when it raises, the handler ends
ds_progress(h, sent) ==
    /\ handlers[h].pc = "ds_progress"
    /\ LET user_id == handlers[h].user_id IN
        IF sent
        THEN /\ handlers' = [handlers EXCEPT ![h] = [@ EXCEPT !.pc = "ds_download"]]
             /\ active_downloads' = Registered(user_id, handlers[h].task_id[1])
             /\ tasks' = [tasks EXCEPT ![h] =
                    Enter("download_story", user_id, "dl_get_user")]
        ELSE /\ handlers' = [handlers EXCEPT ![h] = [@ EXCEPT !.pc = "done",
                                                               !.outcome = "raised"]]
             /\ UNCHANGED <<active_downloads, tasks>>
    /\ UNCHANGED <<now, users, codes, sessions, active_sessions,
                   session_rotation_index, calls, successes, completed,
                   picked, sweep, cache, log>>

\* download_story has returned or raised: on to send_file, or to the edit of the
\* progress message in the else branch or in the except block
ds_result(h) ==
    /\ handlers[h].pc = "ds_download"
    /\ tasks[h].op = "download_story" /\ tasks[h].pc = "done"
    /\ handlers' = [handlers EXCEPT ![h] =
            IF tasks[h].ret # None /\ tasks[h].ret[1] = "raise"
            THEN [@ EXCEPT !.pc = "ds_edit", !.outcome = "raised"]
            ELSE [@ EXCEPT !.pc = "ds_report",
                           !.outcome = IF tasks[h].ret = None THEN "failed"
                                       ELSE "sent"]]
    /\ UNCHANGED <<now, users, codes, sessions, active_sessions,
                   session_rotation_index, tasks, calls, successes, completed,
                   picked, active_downloads, sweep, cache, log>>

\* the finally block, and the end of the handler
Finally(h) ==
    /\ handlers' = [handlers EXCEPT ![h] = [@ EXCEPT !.pc = "done"]]
    /\ active_downloads' =
          IF handlers[h].user_id \in DOMAIN active_downloads
          THEN Unregistered(handlers[h].user_id, handlers[h].task_id[1])
          ELSE active_downloads

\* await self.bot.send_file(...) or await progress_msg.edit(...) in the try block:
\* done, or raised into the except block
ds_report(h, sent) ==
    /\ handlers[h].pc = "ds_report"
    /\ IF sent THEN Finally(h)
       ELSE /\ handlers' = [handlers EXCEPT ![h] =
                    [@ EXCEPT !.pc = "ds_edit", !.outcome = "raised"]]
            /\ UNCHANGED active_downloads
    /\ UNCHANGED <<now, users, codes, sessions, active_sessions,
                   session_rotation_index, tasks, calls, successes, completed,
                   picked, sweep, cache, log>>

\* await progress_msg.edit(...) in the except block, whether it raises or not
ds_edit(h) ==
    /\ handlers[h].pc = "ds_edit"
    /\ Finally(h)
    /\ UNCHANGED <<now, users, codes, sessions, active_sessions,
                   session_rotation_index, tasks, calls, successes, completed,
                   picked, sweep, cache, log>>

download_single_story(h) ==
    \/ ds_admit(h)
    \/ ds_refuse(h)
    \/ \E sent \in BOOLEAN : ds_progress(h, sent)
    \/ ds_result(h)
    \/ \E sent \in BOOLEAN : ds_report(h, sent)
    \/ ds_edit(h)

-----------------------------------------------------------------------------
(* scheduled_tasks *)

\* Config.CACHE_DURATION = timedelta(hours=24)
CACHE_DURATION == Days(1)

\* the job when it is not running
IdleSweep ==
    [pc |-> "idle",
     users_data |-> << >>,  \* users_data, the dict loaded from users.json
     todo |-> {},           \* the keys the second loop has yet to visit
     notifying |-> 0,       \* the key of the user the second loop is notifying
     pre |-> None,          \* history: the stores and the clock when the job began
     reset_at |-> 0,        \* history: the clock when the first loop ran
     until |-> 0,           \* history: the clock when the job ended
     ran |-> {},            \* history: the phases that have run to their end
     raised |-> "",         \* history: the phase that raised out of the job
     unnotified |-> {}]     \* history: the users whose notification failed

\* a slip: the counter zeroed without the stamp
SweepReset_NoStamp(data, t) ==
    [u \in DOMAIN data |->
        IF ElapsedDays(t, FromIso(data[u].last_reset)) >= 1
        THEN [data[u] EXCEPT !.daily_downloads = 0]
        ELSE data[u]]

\* the first loop: the daily counter of every record whose last reset is a day
\* old or more
SweepReset(data, t) ==
    [u \in DOMAIN data |->
        IF ElapsedDays(t, FromIso(data[u].last_reset)) >= 1
        THEN [data[u] EXCEPT !.daily_downloads = 0, !.last_reset = Iso(t)]
        ELSE data[u]]

\* user_data.get('subscription_ends') is set and datetime.now() > ends
SweepExpired(j, t) ==
    j.subscription_ends # None /\ t > FromIso(j.subscription_ends)

\* a slip: the expiry left in the record
SweepDowngraded_TierOnly(j) ==
    [j EXCEPT !.subscription_tier = "free"]

SweepDowngraded(j) ==
    [j EXCEPT !.subscription_tier = "free", !.subscription_ends = None]

\* the smallest of a non-empty set of keys: the dict is gone through in key order
FirstKey(S) == CHOOSE u \in S : \A v \in S : u <= v

\* the second loop from where it stands to its next await: the notification of
\* the next expired user, or the save after the loop
SweepExpiryLoop(sw, t) ==
    LET expired == {u \in sw.todo : SweepExpired(sw.users_data[u], t)} IN
    IF expired = {}
    THEN [sw EXCEPT !.pc = "st_save_expired", !.todo = {}, !.notifying = 0]
    ELSE LET u == FirstKey(expired) IN
         [sw EXCEPT !.pc = "st_notify", !.notifying = u,
                    !.users_data = [sw.users_data EXCEPT ![u] = SweepDowngraded(@)],
                    !.todo = {v \in sw.todo : v > u}]

\* the entries the last statement keeps in the cache
CachePruned(t) ==
    [k \in {k \in DOMAIN cache : t - cache[k].timestamp < CACHE_DURATION} |-> cache[k]]

\* the exception leaves scheduled_tasks: nothing of the job runs after it
SweepRaise(sw, phase) ==
    [sw EXCEPT !.pc = "done", !.raised = phase, !.users_data = << >>, !.todo = {},
               !.notifying = 0, !.until = now]

\* the scheduler starts the job
CallScheduledTasks ==
    /\ sweep.pc \in {"idle", "done"}
    /\ calls < MaxCalls
    /\ calls' = calls + 1
    /\ sweep' = [IdleSweep EXCEPT !.pc = "st_load", !.pre = Some(Snapshot)]
    /\ UNCHANGED <<now, users, codes, sessions, active_sessions,
                   session_rotation_index, tasks, successes, completed, picked,
                   active_downloads, handlers, cache, log>>

\* users_data = await bot.db.load_json(Config.USERS_DB) and the first loop, up to
\* the save; the read or the parse of a record may raise
st_load(read) ==
    /\ sweep.pc = "st_load"
    /\ sweep' = IF read
                THEN [sweep EXCEPT !.pc = "st_save_reset",
                                   !.users_data = SweepReset(users, now),
                                   !.reset_at = now]
                ELSE SweepRaise(sweep, "reset")
    /\ UNCHANGED <<now, users, codes, sessions, active_sessions,
                   session_rotation_index, tasks, calls, successes, completed,
                   picked, active_downloads, handlers, cache, log>>

\* await bot.db.save_json(Config.USERS_DB, users_data) after the first loop, and
\* the second loop up to its first await; the write may raise
st_save_reset(written) ==
    /\ sweep.pc = "st_save_reset"
    /\ IF written
       THEN /\ users' = sweep.users_data
            /\ completed' = [u \in UserIds |->
                  IF /\ u \in DOMAIN users /\ u \in DOMAIN sweep.users_data
                     /\ sweep.users_data[u].last_reset = users[u].last_reset
                  THEN completed[u] ELSE 0]
            /\ sweep' = SweepExpiryLoop(
                  [sweep EXCEPT !.ran = @ \cup {"reset"},
                                !.todo = DOMAIN sweep.users_data], now)
       ELSE /\ sweep' = SweepRaise(sweep, "reset")
            /\ UNCHANGED <<users, completed, log>>
    /\ UNCHANGED <<now, codes, sessions, active_sessions,
                   session_rotation_index, tasks, calls, successes,
                   picked, active_downloads, handlers, cache, log>>

\* await bot.bot.send_message(...) inside try / except: pass, and the loop up to
\* its next await
st_notify(sent) ==
    /\ sweep.pc = "st_notify"
    /\ sweep' = SweepExpiryLoop(
            [sweep EXCEPT !.unnotified =
                IF sent THEN @ ELSE @ \cup {sweep.notifying}], now)
    /\ UNCHANGED <<now, users, codes, sessions, active_sessions,
                   session_rotation_index, tasks, calls, successes, completed,
                   picked, active_downloads, handlers, cache, log>>

\* await bot.db.save_json(Config.USERS_DB, users_data) after the second loop, and
\* the pruning of the cache; the write may raise
st_save_expired(written) ==
    /\ sweep.pc = "st_save_expired"
    /\ IF written
       THEN /\ users' = sweep.users_data
            /\ cache' = CachePruned(now)
            /\ sweep' = [sweep EXCEPT !.pc = "done", !.users_data = << >>,
                                      !.until = now,
                                      !.ran = @ \cup {"expiry", "prune"}]
       ELSE /\ sweep' = SweepRaise(sweep, "expiry")
            /\ UNCHANGED <<users, cache, log>>
    /\ UNCHANGED <<now, codes, sessions, active_sessions,
                   session_rotation_index, tasks, calls, successes, completed,
                   picked, active_downloads, handlers, log>>

scheduled_tasks ==
    \/ \E read \in BOOLEAN : st_load(read)
    \/ \E written \in BOOLEAN : st_save_reset(written)
    \/ \E sent \in BOOLEAN : st_notify(sent)
    \/ \E written \in BOOLEAN : st_save_expired(written)

-----------------------------------------------------------------------------
(* The clock *)

Tick ==
    /\ now < MaxTime
    /\ now' = now + 1
    /\ UNCHANGED <<users, codes, sessions, active_sessions,
                   session_rotation_index, tasks, calls, successes, completed,
                   picked, bot_vars, log>>

-----------------------------------------------------------------------------
(* Initial states *)

\* a registered user as the store holds it
StoredUser(user_id, tier, ends, daily, total, last_reset) ==
    UserToJson([UserData(user_id, last_reset) EXCEPT
                    !.subscription_tier = tier, !.subscription_ends = ends,
                    !.daily_downloads = daily, !.total_downloads = total])

\* tier and expiry as the program stores them: Free without an expiry, a paid
\* tier with the expiry activate_code gave it (passed or to come)
TierAndEnds ==
    {<<"FREE", None>>, <<"PREMIUM", Some(-1)>>,
     <<"PREMIUM", Some(1)>>, <<"ULTRA", Some(2)>>}

\* a registered user with any stored subscription, counter and reset time; a second
\* user who registered at time 0, or has not registered
InitStatusStores ==
    /\ \E te \in TierAndEnds, daily \in {0, 3}, last_reset \in {-TicksPerDay, -1, 0},
          two \in BOOLEAN :
          users = [u \in (IF two THEN {1, 2} ELSE {1}) |->
                      IF u = 1 THEN StoredUser(1, te[1], te[2], daily, 7, last_reset)
                      ELSE UserToJson(UserData(2, 0))]
    /\ codes = << >>

\* the codes an admin may have issued at time -1, none redeemed yet
IssuedCodes ==
    {SubscriptionCode("ABCD1234WXYZ", td[1], td[2], max_uses, expires_at, -1) :
        td \in {<<"PREMIUM", 30>>, <<"ULTRA", 1>>}, max_uses \in {1, 2},
        expires_at \in {None, Some(1)}}

\* user 1 is registered, user 2 may be; one code has been issued, the other code
\* is unknown
InitRedeemStores ==
    /\ \E te \in TierAndEnds, two \in BOOLEAN :
          users = [u \in (IF two THEN {1, 2} ELSE {1}) |->
                      IF u = 1 THEN StoredUser(1, te[1], te[2], 3, 7, 0)
                      ELSE UserToJson(UserData(2, 0))]
    /\ \E cd \in IssuedCodes : codes = [c \in {cd.code} |-> CodeToJson(cd)]

InitRest ==
    /\ now = 0
    /\ tasks = [t \in Tasks |-> IdleTask]
    /\ calls = 0
    /\ successes = [c \in CodeIds |-> 0]
    /\ completed = [u \in UserIds |->
                      IF u \in DOMAIN users THEN users[u].daily_downloads ELSE 0]
    /\ picked = << >>
    /\ active_downloads = << >>
    /\ handlers = [h \in Tasks |-> IdleHandler]
    /\ sweep = IdleSweep
    /\ cache = << >>
    /\ log = [resets |-> [u \in UserIds |-> << >>],
              downloads |-> [u \in UserIds |-> 0],
              total_downloads |-> [u \in UserIds |->
                  IF u \in DOMAIN users THEN users[u].total_downloads ELSE 0]]

NoSessions ==
    /\ sessions = {}
    /\ active_sessions = <<>>
    /\ session_rotation_index = 0

-----------------------------------------------------------------------------
(* check_subscription, one call at a time *)

InitStatus == InitStatusStores /\ NoSessions /\ InitRest

NextStatus ==
    \/ Tick
    \/ \E u \in UserIds : CallCheckSubscription(1, u)
    \/ check_subscription(1)

SpecStatus == InitStatus /\ [][NextStatus]_vars

-----------------------------------------------------------------------------
(* activate_code, one call at a time *)

InitRedeem == InitRedeemStores /\ NoSessions /\ InitRest

NextRedeem ==
    \/ Tick
    \/ \E u \in UserIds, c \in CodeIds : CallActivateCode(1, u, c)
    \/ activate_code(1)

SpecRedeem == InitRedeem /\ [][NextRedeem]_vars

-----------------------------------------------------------------------------
(* download_story, one call at a time *)

\* the backend answers the first two requests of an attempt: with a rate-limit
\* signal only MaxFloods times a call and only for a wait the clock can run out
Fetch(t) ==
    \/ \E answer \in FetchAnswers \ {"flood"} : dl_fetch(t, answer, 0)
    \/ \E seconds \in FloodSeconds :
          /\ tasks[t].floods < MaxFloods
          /\ now + seconds <= MaxTime
          /\ dl_fetch(t, "flood", seconds)

\* the backend answers download_media
Media(t) ==
    \/ \E answer \in MediaAnswers \ {"flood"} : dl_media(t, answer, 0)
    \/ \E seconds \in FloodSeconds :
          /\ tasks[t].floods < MaxFloods
          /\ now + seconds <= MaxTime
          /\ dl_media(t, "flood", seconds)

download_story(t) ==
    \/ dl_get_user(t)
    \/ check_subscription(t)
    \/ dl_limit(t)
    \/ Fetch(t)
    \/ Media(t)
    \/ dl_save_load(t)
    \/ dl_save_write(t)
    \/ dl_sleep(t)

\* user 1 with a stored subscription and a daily count at or next to a limit
\* (a Premium user whose term has run out may hold any count up to Premium's);
\* user 2 has not registered
DownloadUsers ==
    {StoredUser(1, x[1], x[2], x[3], 60, last_reset) :
        x \in {<<"FREE", None, 4>>, <<"FREE", None, 5>>,
               <<"PREMIUM", Some(-1), 4>>, <<"PREMIUM", Some(-1), 49>>,
               <<"PREMIUM", Some(1), 49>>, <<"PREMIUM", Some(1), 50>>,
               <<"ULTRA", Some(2), 50>>},
        last_reset \in {-TicksPerDay, 0}}

\* the pool after the sessions of sessions.json have been added, each under its
\* own name
SomeSessions ==
    /\ active_sessions \in {<< >>, <<"a">>, <<"a", "b">>}
    /\ sessions = {active_sessions[i] : i \in DOMAIN active_sessions}
    /\ session_rotation_index = 0

InitDl ==
    /\ \E ud \in DownloadUsers : users = [u \in {1} |-> ud]
    /\ codes = << >>
    /\ SomeSessions
    /\ InitRest

NextDl ==
    \/ Tick
    \/ \E u \in UserIds : CallDownloadStory(1, u)
    \/ download_story(1)

SpecDl == InitDl /\ [][NextDl]_vars

\* the event loop runs a coroutine that can run, the backend answers every
\* request, and the clock moves on
SpecDlFair == SpecDl /\ WF_vars(download_story(1)) /\ WF_vars(Tick)

-----------------------------------------------------------------------------
(* download_story, two calls of one user at a time *)

\* the backend serves every request: the story is there or is not
Served(t) ==
    \/ \E answer \in {"photo", "no_story"} : dl_fetch(t, answer, 0)
    \/ dl_media(t, "downloaded", 0)

\* user 1 holds a tier that admits several downloads at a time, with a term that
\* outlasts the model's clock, and is one download short of the daily limit
\* (Ultra has no limit to be short of); the daily reset is due or is not
InitDlConc ==
    /\ \E x \in {<<"PREMIUM", Some(MaxTime + 1), PREMIUM_DAILY_LIMIT - 1>>,
                 <<"ULTRA", Some(MaxTime + 1), PREMIUM_DAILY_LIMIT>>},
          last_reset \in {-TicksPerDay, 0} :
          users = [u \in {1} |-> StoredUser(1, x[1], x[2], x[3], 60, last_reset)]
    /\ codes = << >>
    /\ active_sessions = <<"a", "b">>
    /\ sessions = {"a", "b"}
    /\ session_rotation_index = 0
    /\ InitRest

\* the clock stands still, so that no subscription runs out: check_subscription
\* never takes its expiry branch
NextDlConc ==
    \/ \E t \in Tasks : CallDownloadStory(t, 1)
    \/ \E t \in Tasks :
          \/ dl_get_user(t)
          \/ cs_get_user(t)
          \/ cs_reset_load(t)
          \/ cs_reset_write(t)
          \/ dl_limit(t)
          \/ Served(t)
          \/ dl_save_load(t)
          \/ dl_save_write(t)

SpecDlConc == InitDlConc /\ [][NextDlConc]_vars

-----------------------------------------------------------------------------
(* Claims about check_subscription (SpecStatus) *)

\* the calls of operation op that have returned
Returned(op) == {t \in Tasks : tasks[t].op = op /\ tasks[t].pc = "done"}

\* the user's stored record when the call of task t began (a dict), if any
PreUser(t) == tasks[t].pre[1].users[tasks[t].user_id]
PreRegistered(t) == tasks[t].user_id \in DOMAIN tasks[t].pre[1].users

\* the stored expiry was set and strictly before the clock when the call began
ExpiredAtCall(t) ==
    /\ PreRegistered(t)
    /\ PreUser(t).subscription_ends # None
    /\ FromIso(PreUser(t).subscription_ends) < tasks[t].pre[1].now

\* C1: whenever check_subscription is called for a user whose stored expiry is set
\* and strictly before now, it returns (Free, None) and leaves the stored record
\* with tier Free and no expiry.
C1_ExpiredIsFree ==
    \A t \in Returned("check_subscription") :
        ExpiredAtCall(t) =>
            /\ tasks[t].ret = <<"FREE", None>>
            /\ users[tasks[t].user_id].subscription_tier = "free"
            /\ users[tasks[t].user_id].subscription_ends = None

\* a Premium user whose subscription had run out has been checked and demoted
C1_Witness ==
    \E t \in Returned("check_subscription") :
        /\ ExpiredAtCall(t)
        /\ PreUser(t).subscription_tier = "premium"
        /\ users[tasks[t].user_id].subscription_tier = "free"

-----------------------------------------------------------------------------
(* Claims about activate_code, one call at a time (SpecRedeem) *)

\* the code's stored record when the call of task t began (a dict), if any
PreCode(t) == tasks[t].pre[1].codes[tasks[t].code]
PreKnown(t) == tasks[t].code \in DOMAIN tasks[t].pre[1].codes

\* the instants the call of task t has lasted over
During(t) ==
    tasks[t].pre[1].now .. (IF tasks[t].pc = "done" THEN tasks[t].until ELSE now)

Redeemed(t) == tasks[t].ret[1]

\* C2: a successful redemption leaves the stored user as before except for the
\* tier, now the code's, and the expiry, now the time of the redemption plus the
\* code's duration in days, whatever the expiry was; it leaves the stored code as
\* before except for the redemption count, one higher; no other record changes.
C2_RedeemEffect ==
    \A t \in Returned("activate_code") :
        Redeemed(t) =>
            /\ PreRegistered(t) /\ PreKnown(t)
            /\ \E at \in During(t) :
                  users[tasks[t].user_id] =
                      [PreUser(t) EXCEPT
                          !.subscription_tier = PreCode(t).tier,
                          !.subscription_ends =
                              Iso(at + PreCode(t).duration * TicksPerDay)]
            /\ codes[tasks[t].code] =
                  [PreCode(t) EXCEPT !.used_count = PreCode(t).used_count + 1]
            /\ DOMAIN users = DOMAIN tasks[t].pre[1].users
            /\ \A u \in DOMAIN users \ {tasks[t].user_id} :
                  users[u] = tasks[t].pre[1].users[u]
            /\ DOMAIN codes = DOMAIN tasks[t].pre[1].codes

\* a user with a running Premium subscription has redeemed an Ultra code
C2_Witness ==
    \E t \in Returned("activate_code") :
        /\ Redeemed(t)
        /\ PreUser(t).subscription_tier = "premium"
        /\ PreUser(t).subscription_ends = Iso(1)
        /\ PreCode(t).tier = "ultra"
        /\ users[tasks[t].user_id].subscription_tier = "ultra"

\* the answer the order of the checks prescribes for a call made at time at
Prescribed(t, at) ==
    IF ~PreKnown(t) THEN InvalidCode
    ELSE IF PreCode(t).expires_at # None /\ FromIso(PreCode(t).expires_at) < at
         THEN CodeExpired
    ELSE IF PreCode(t).used_count >= PreCode(t).max_uses THEN CodeExhausted
    ELSE IF ~PreRegistered(t) THEN UserNotFound
    ELSE Activated

\* C3: activate_code reports the first failing check in the order unknown code,
\* expired code, exhausted code, unregistered user, and a call that fails changes
\* neither the stored codes nor the stored users.
C3_RefusalOrder ==
    \A t \in Returned("activate_code") :
        /\ \E at \in During(t) : tasks[t].ret[2] = Prescribed(t, at)
        /\ Redeemed(t) <=> tasks[t].ret[2] = Activated
        /\ ~Redeemed(t) =>
              users = tasks[t].pre[1].users /\ codes = tasks[t].pre[1].codes

\* an unregistered user has been refused a code that was expired and exhausted
\* as well, and the refusal names the expiry
C3_Witness ==
    \E t \in Returned("activate_code") :
        /\ tasks[t].ret = <<FALSE, CodeExpired>>
        /\ PreCode(t).used_count >= PreCode(t).max_uses
        /\ ~PreRegistered(t)

\* the redemption count of every stored code is within its maximum, and no more
\* calls have succeeded on it than that
WithinMaxUses ==
    \A c \in DOMAIN codes :
        /\ codes[c].used_count <= codes[c].max_uses
        /\ successes[c] <= codes[c].max_uses

\* the call of task t began with the code used up
PreExhausted(t) ==
    PreKnown(t) /\ PreCode(t).used_count = PreCode(t).max_uses

\* C4 as claimed: with calls on a code made one after another, the redemption
\* count stays within max_uses, at most max_uses calls succeed, and once the
\* count equals max_uses every further attempt fails with CodeExhausted.
C4_AlwaysExhausted ==
    /\ WithinMaxUses
    /\ \A t \in Returned("activate_code") :
          PreExhausted(t) => tasks[t].ret = <<FALSE, CodeExhausted>>

\* C4 as amended: ... once the count equals max_uses every further attempt fails,
\* with CodeExhausted unless the code's own expiry has passed, and then with
\* CodeExpired.
C4_ExhaustedOrExpired ==
    /\ WithinMaxUses
    /\ \A t \in Returned("activate_code") :
          PreExhausted(t) =>
              \E at \in During(t) :
                  tasks[t].ret =
                      <<FALSE,
                        IF PreCode(t).expires_at # None
                           /\ FromIso(PreCode(t).expires_at) < at
                        THEN CodeExpired ELSE CodeExhausted>>

\* a code of two uses has been redeemed twice and a third attempt refused
C4_Witness ==
    \E t \in Returned("activate_code") :
        /\ PreExhausted(t)
        /\ PreCode(t).max_uses = 2
        /\ successes[tasks[t].code] = 2
        /\ tasks[t].ret = <<FALSE, CodeExhausted>>

-----------------------------------------------------------------------------
(* activate_code, two calls at a time *)

\* both users are registered and one code has been issued, without an expiry
InitRaceStores ==
    /\ users = [u \in UserIds |-> UserToJson(UserData(u, 0))]
    /\ \E cd \in {i \in IssuedCodes : i.expires_at = None} :
          codes = [c \in {cd.code} |-> CodeToJson(cd)]

InitRace == InitRaceStores /\ NoSessions /\ InitRest

\* the clock stands still: no step of a redemption of such a code reads it but to
\* compute the new expiry
NextRace ==
    \/ \E t \in Tasks, u \in UserIds : CallActivateCode(t, u, "ABCD1234WXYZ")
    \/ \E t \in Tasks : activate_code(t)

SpecRace == InitRace /\ [][NextRace]_vars

\* the users whose stored subscription is the one code c grants
UpgradedBy(c) ==
    {u \in DOMAIN users :
        /\ users[u].subscription_tier = codes[c].tier
        /\ users[u].subscription_ends # None}

\* C5: calls of activate_code on one code that interleave between the exhaustion
\* check and the save can all pass the check: more calls succeed, and more users
\* are upgraded, than max_uses allows.  Each of them saves the count it read plus
\* one, so the stored count stays within max_uses and falls short of the number
\* of successes whenever that number is beyond max_uses.
C5_OverRedemptionLosesCount ==
    \A c \in DOMAIN codes :
        /\ codes[c].used_count <= codes[c].max_uses
        /\ successes[c] > codes[c].max_uses => codes[c].used_count < successes[c]

\* a code of one use has upgraded two users, in two calls that both returned True
C5_Witness ==
    \E c \in DOMAIN codes :
        /\ codes[c].max_uses = 1
        /\ successes[c] = 2
        /\ Cardinality(UpgradedBy(c)) = 2
        /\ \A t \in Tasks : tasks[t].pc = "done" /\ tasks[t].ret = <<TRUE, Activated>>

-----------------------------------------------------------------------------
(* Claims about download_story, one call at a time (SpecDl) *)

\* the tier check_subscription finds at time at for a stored record
EffectiveTier(j, at) ==
    IF j.subscription_ends # None /\ FromIso(j.subscription_ends) < at
    THEN "free" ELSE j.subscription_tier

\* the stored daily count is at or above the daily limit of the tier in effect at
\* time at
AtLimit(j, at) ==
    \/ EffectiveTier(j, at) = "free" /\ j.daily_downloads >= FREE_DAILY_LIMIT
    \/ EffectiveTier(j, at) = "premium" /\ j.daily_downloads >= PREMIUM_DAILY_LIMIT

\* a reset of the stored daily counter is due at time at
DueAt(j, at) == at - FromIso(j.last_reset) >= TicksPerDay

\* the call of task t found the user registered and at the limit, whenever in the
\* call the subscription was looked at
CalledAtLimit(t) ==
    /\ PreRegistered(t)
    /\ \A at \in During(t) : AtLimit(PreUser(t), at)

CursorUnmoved(t) ==
    session_rotation_index = tasks[t].pre[1].session_rotation_index

DailyUnchanged(t) ==
    users[tasks[t].user_id].daily_downloads = PreUser(t).daily_downloads

TotalUnchanged(t) ==
    users[tasks[t].user_id].total_downloads = PreUser(t).total_downloads

\* the daily count after a call that did not count a download: as it was, unless
\* a reset was due, which check_subscription then made
DailyAsCheckSubscriptionLeftIt(t) ==
    /\ (\A at \in During(t) : ~DueAt(PreUser(t), at)) => DailyUnchanged(t)
    /\ (\A at \in During(t) : DueAt(PreUser(t), at)) =>
          users[tasks[t].user_id].daily_downloads = 0
    /\ users[tasks[t].user_id].daily_downloads \in {0, PreUser(t).daily_downloads}

\* C7 as claimed: download_story for a registered user whose daily count is at or
\* above the limit of the effective tier fails with the quota error, also when the
\* pool is empty, without moving the rotation cursor and without changing the
\* user's stored daily and lifetime counters.
C7_QuotaFrame ==
    \A t \in Returned("download_story") :
        CalledAtLimit(t) =>
            /\ tasks[t].ret = DailyLimitReached
            /\ CursorUnmoved(t)
            /\ TotalUnchanged(t)
            /\ DailyUnchanged(t)

\* no reset of the user's daily counter was due at any instant of the call
NoResetDue(t) == \A at \in During(t) : ~DueAt(PreUser(t), at)

\* C7 as amended: download_story for a registered user whose daily count is at or
\* above the limit of the effective tier, and whose daily reset is not due, fails
\* with the quota error, also when the pool is empty, without moving the rotation
\* cursor and without changing the user's stored daily and lifetime counters.
C7_QuotaFrameNoReset ==
    \A t \in Returned("download_story") :
        CalledAtLimit(t) /\ NoResetDue(t) =>
            /\ tasks[t].ret = DailyLimitReached
            /\ tasks[t].floods = 0
            /\ CursorUnmoved(t)
            /\ TotalUnchanged(t)
            /\ DailyUnchanged(t)

\* a Free user with 5 downloads today and no reset due has been refused while the
\* pool was empty
C7_Witness ==
    \E t \in Returned("download_story") :
        /\ CalledAtLimit(t) /\ NoResetDue(t)
        /\ PreUser(t).subscription_tier = "free"
        /\ PreUser(t).daily_downloads = FREE_DAILY_LIMIT
        /\ active_sessions = << >>
        /\ tasks[t].ret = DailyLimitReached

\* the outcome section 7 names StoryNotFound
StoryNotFound == <<"raise", "Story not found">>

\* C8 as claimed: when the backend has no story for the id, download_story fails
\* with StoryNotFound, which the caller can tell from a failed download, and the
\* user's counters are unchanged.
C8_StoryNotFoundTyped ==
    \A t \in Returned("download_story") :
        tasks[t].answer = "no_story" =>
            /\ tasks[t].ret = StoryNotFound
            /\ TotalUnchanged(t)

\* C9 as claimed: with one call at a time, a successful download_story leaves the
\* stored daily and lifetime counts one above what they were when it was called,
\* however many retries it made, and a failed one leaves both as they were.
C9_CountersByOne ==
    \A t \in Returned("download_story") :
        PreRegistered(t) =>
            IF tasks[t].ret = FilePath
            THEN /\ users[tasks[t].user_id].daily_downloads =
                        PreUser(t).daily_downloads + 1
                 /\ users[tasks[t].user_id].total_downloads =
                        PreUser(t).total_downloads + 1
            ELSE DailyUnchanged(t) /\ TotalUnchanged(t)

\* C9 as amended: with one call at a time, a successful download_story leaves the
\* stored lifetime count one above what it was when it was called and, when no
\* reset of the daily counter fell due during the call, the daily count too,
\* however many retries it made; a failed one leaves the lifetime count as it was,
\* and the daily count as it was unless a reset fell due, which check_subscription
\* then made.
C9_CountersByOneButReset ==
    \A t \in Returned("download_story") :
        PreRegistered(t) =>
            IF tasks[t].ret = FilePath
            THEN /\ users[tasks[t].user_id].total_downloads =
                        PreUser(t).total_downloads + 1
                 /\ NoResetDue(t) =>
                        users[tasks[t].user_id].daily_downloads =
                            PreUser(t).daily_downloads + 1
            ELSE TotalUnchanged(t) /\ DailyAsCheckSubscriptionLeftIt(t)

\* a download has succeeded after a rate-limit wait, with no reset due, and the two
\* counts are one higher
C9_Witness ==
    \E t \in Returned("download_story") :
        /\ tasks[t].ret = FilePath
        /\ tasks[t].floods >= 1
        /\ NoResetDue(t)
        /\ users[tasks[t].user_id].daily_downloads = PreUser(t).daily_downloads + 1
        /\ users[tasks[t].user_id].total_downloads = PreUser(t).total_downloads + 1

-----------------------------------------------------------------------------
(* Claims about download_story, two calls at a time (SpecDlConc) *)

\* C6 as claimed: between two resets of a user's daily counter a Free user
\* completes at most 5 downloads and a Premium user at most 50, however the
\* user's downloads interleave, and an Ultra user is never refused for quota.
C6_QuotaPerDay ==
    /\ \A u \in DOMAIN users :
          /\ users[u].subscription_tier = "free" => completed[u] <= FREE_DAILY_LIMIT
          /\ users[u].subscription_tier = "premium" =>
                completed[u] <= PREMIUM_DAILY_LIMIT
    /\ \A t \in Returned("download_story") :
          PreUser(t).subscription_tier = "ultra" => tasks[t].ret # DailyLimitReached

-----------------------------------------------------------------------------
(* Claims about the retries of download_story (SpecDlFair) *)

Downloads == {t \in Tasks : tasks[t].op = "download_story"}

\* every rate-limit signal is followed by one sleep of the signaled length and then
\* one new start of the download, and only a signal is
SignalThenWaitThenRetry ==
    \A t \in Downloads :
        IF tasks[t].pc = "dl_sleep"
        THEN /\ tasks[t].answer = "flood"
             /\ tasks[t].wake = tasks[t].flood_at + tasks[t].seconds
             /\ tasks[t].floods = tasks[t].retries + 1
        ELSE tasks[t].floods = tasks[t].retries

\* a call does not return on a signal; on any other backend error it returns None
\* at once; it returns the file only after the media have been downloaded
ReturnsOnOtherAnswer ==
    \A t \in Downloads :
        /\ tasks[t].pc = "done" => tasks[t].answer # "flood"
        /\ tasks[t].answer \in {"error", "no_story", "other_media"} =>
              tasks[t].pc = "done" /\ tasks[t].ret = None
        /\ tasks[t].pc = "done" /\ tasks[t].ret = FilePath =>
              tasks[t].answer = "downloaded"

\* C10: every rate-limit signal causes one wait of the signaled length and then
\* one retry of the same download, without a cap on their number; the call
\* returns once an attempt ends otherwise than by a signal, which it does when the
\* backend stops signaling, and it does not return on a signal; any other backend
\* error ends the call at once with None.
C10_RetryUntilAnswered ==
    /\ [](SignalThenWaitThenRetry /\ ReturnsOnOtherAnswer)
    /\ \A t \in {1} : (tasks[t].pc = "dl_sleep") ~> (tasks[t].pc = "done")

\* a call has been signaled as often as the backend would, has slept and started
\* over each time, and has then returned the file
C10_Witness ==
    \E t \in Returned("download_story") :
        /\ tasks[t].floods = MaxFloods
        /\ tasks[t].retries = MaxFloods
        /\ tasks[t].ret = FilePath

-----------------------------------------------------------------------------
(* download_single_story, two requests of one user at a time *)

\* user 1 holds a tier whose term outlasts the model's clock, has downloaded
\* nothing today and is not due for a reset
InitAdmit ==
    /\ \E x \in {<<"FREE", None>>, <<"PREMIUM", Some(MaxTime + 1)>>,
                 <<"ULTRA", Some(MaxTime + 1)>>} :
          users = [u \in {1} |-> StoredUser(1, x[1], x[2], 0, 60, 0)]
    /\ codes = << >>
    /\ active_sessions = <<"a">>
    /\ sessions = {"a"}
    /\ session_rotation_index = 0
    /\ InitRest

\* the clock stands still, so that no subscription runs out and no reset falls due
NextAdmit ==
    \/ \E h \in Tasks : CallDownloadSingleStory(h, 1)
    \/ \E h \in Tasks :
          \/ cs_get_user(h)
          \/ download_single_story(h)
          \/ dl_get_user(h)
          \/ dl_limit(h)
          \/ Served(h)
          \/ dl_save_load(h)
          \/ dl_save_write(h)

SpecAdmit == InitAdmit /\ [][NextAdmit]_vars

-----------------------------------------------------------------------------
(* Claims about the active-task registry (SpecAdmit) *)

\* C11 as claimed: while the user's tier stays what it is, the user's list in the
\* active-task registry is never longer than the concurrency cap of the tier,
\* however the user's download requests interleave.
C11_RegistryWithinCap ==
    \A u \in DOMAIN active_downloads \cap DOMAIN users :
        Len(active_downloads[u]) <=
            ConcurrentCap(SubscriptionTier(users[u].subscription_tier))

-----------------------------------------------------------------------------
(* The session pool, one call at a time *)

\* the names sessions are registered and deregistered under
SessionNames == {"a", "b", "c"}

\* the pool after the sessions of sessions.json have been added, each under its
\* own name; no other store is used
InitPool ==
    /\ active_sessions \in {<< >>, <<"a">>, <<"a", "b">>, <<"a", "b", "c">>}
    /\ sessions = {active_sessions[i] : i \in DOMAIN active_sessions}
    /\ session_rotation_index = 0
    /\ users = << >>
    /\ codes = << >>
    /\ InitRest

NextPool ==
    \/ \E name \in SessionNames : CallAddSession(1, name)
    \/ add_session(1)
    \/ \E name \in SessionNames : CallRemoveSession(1, name)
    \/ remove_session(1)
    \/ CallGetNextClient(1)

SpecPool == InitPool /\ [][NextPool]_vars

-----------------------------------------------------------------------------
(* Claims about the session pool (SpecPool) *)

\* the elements of a list
Elements(list) == {list[i] : i \in DOMAIN list}

\* the active list names every session once and names nothing else
PoolOfSessions ==
    /\ Elements(active_sessions) = sessions
    /\ Cardinality(sessions) = Len(active_sessions)

\* how often index i has been read, and how often the client registered under
\* name has been returned, since the active list last changed
IndexReads(i) == Cardinality({k \in DOMAIN picked : picked[k].index = i})
ClientReturns(name) ==
    Cardinality({k \in DOMAIN picked : picked[k].client = Some(name)})

\* n / k rounded down and rounded up
Floor(n, k) == n \div k
Ceiling(n, k) == (n + k - 1) \div k

\* C12: N calls of get_next_client on an unchanged active list of length K >= 1,
\* from whatever cursor value, read every index of the list between floor(N/K)
\* and ceil(N/K) times; on a pool of K sessions, each in the list once, they
\* return every session that often.
C12_RoundRobinShare ==
    LET K == Len(active_sessions)
        N == Len(picked) IN
    K >= 1 =>
        /\ \A i \in 0 .. K - 1 :
              /\ Floor(N, K) <= IndexReads(i)
              /\ IndexReads(i) <= Ceiling(N, K)
        /\ PoolOfSessions =>
              \A name \in sessions :
                  /\ Floor(N, K) <= ClientReturns(name)
                  /\ ClientReturns(name) <= Ceiling(N, K)

\* a pool of two sessions has been asked as often as the model asks after a
\* registration or deregistration
C12_Witness ==
    /\ PoolOfSessions
    /\ Len(active_sessions) = 2
    /\ Len(picked) = MaxPicks
    /\ calls >= 1
    /\ picked[1].index = 0 /\ session_rotation_index = (MaxPicks - 1) % 2

\* C13: on a non-empty active list of length K with cursor c, get_next_client
\* leaves the cursor at (c+1) mod K and returns the client held under the name
\* at that index; from the initial cursor 0 on sessions [a, b, c], consecutive
\* calls return the sessions at the indices 1, 2, 0, in that order.
C13_AdvanceThenRead ==
    /\ \A t \in Returned("get_next_client") :
          LET pre == tasks[t].pre[1]
              K == Len(pre.active_sessions)
              c == (pre.session_rotation_index + 1) % K
              name == pre.active_sessions[c + 1] IN
          K >= 1 =>
              /\ session_rotation_index = c
              /\ tasks[t].ret = IF name \in pre.sessions THEN Some(name) ELSE None
              /\ picked[Len(picked)] = [index |-> c, client |-> tasks[t].ret]
    /\ calls = 0 /\ active_sessions = <<"a", "b", "c">> =>
          \A k \in DOMAIN picked :
              /\ picked[k].index = k % 3
              /\ k = 1 => picked[k].client = Some("b")
              /\ k = 2 => picked[k].client = Some("c")
              /\ k = 3 => picked[k].client = Some("a")

\* three calls on the untouched pool [a, b, c] have returned b, c and a
C13_Witness ==
    /\ calls = 0 /\ active_sessions = <<"a", "b", "c">>
    /\ Len(picked) = 3
    /\ picked[1].client = Some("b")
    /\ picked[2].client = Some("c")
    /\ picked[3].client = Some("a")
    /\ session_rotation_index = 0
    /\ Returned("get_next_client") # {}

\* C14 as claimed: after any registrations, deregistrations and calls,
\* get_next_client returns None exactly when the active list is empty, and then
\* leaves the cursor alone; on a non-empty list it reads an index inside the list
\* and returns a client the pool holds.
C14_EmptyExactlyWhenNoSessions ==
    \A t \in Returned("get_next_client") :
        LET pre == tasks[t].pre[1] IN
        IF pre.active_sessions = << >>
        THEN /\ tasks[t].ret = None
             /\ session_rotation_index = pre.session_rotation_index
        ELSE /\ tasks[t].ret # None
             /\ tasks[t].ret[1] \in sessions
             /\ session_rotation_index \in 0 .. Len(pre.active_sessions) - 1

\* the pool as add_session left it
RegisterStored(t) ==
    LET pre == tasks[t].pre[1] IN
    /\ tasks[t].name \in sessions
    /\ sessions = pre.sessions \cup {tasks[t].name}
    /\ active_sessions = Append(pre.active_sessions, tasks[t].name)
    /\ session_rotation_index = pre.session_rotation_index

\* the pool is what it was when the call of task t began
PoolUnchanged(t) ==
    LET pre == tasks[t].pre[1] IN
    /\ sessions = pre.sessions
    /\ active_sessions = pre.active_sessions
    /\ session_rotation_index = pre.session_rotation_index

\* C16: add_session whose connection is authorized stores the connection under
\* the name, appends the name to the end of the active list and returns True;
\* add_session whose connection is not authorized, or whose connect or
\* authorization check raises, returns False and leaves the store, the active
\* list and the cursor as they were.
C16_RegisterEffect ==
    \A t \in Returned("add_session") :
        IF tasks[t].answer = "authorized"
        THEN tasks[t].ret = Bool(TRUE) /\ RegisterStored(t)
        ELSE tasks[t].ret = Bool(FALSE) /\ PoolUnchanged(t)

\* a session has been added behind another one, and an addition has failed
C16_Witness ==
    \E t \in Returned("add_session") :
        /\ tasks[t].ret = Bool(TRUE)
        /\ Len(active_sessions) >= 2
        /\ active_sessions[Len(active_sessions)] = tasks[t].name
        /\ active_sessions[1] # tasks[t].name

\* C17 as claimed: after remove_session has returned True the name is neither in
\* the store nor in the active list and every other session is where it was;
\* remove_session of an unknown name returns False and changes nothing.
C17_DeregisterRemoves ==
    \A t \in Returned("remove_session") :
        LET pre == tasks[t].pre[1] IN
        /\ tasks[t].ret = Bool(TRUE) =>
              /\ tasks[t].name \notin sessions
              /\ tasks[t].name \notin Elements(active_sessions)
              /\ sessions = pre.sessions \ {tasks[t].name}
              /\ Elements(active_sessions) =
                    Elements(pre.active_sessions) \ {tasks[t].name}
        /\ tasks[t].name \notin pre.sessions =>
              tasks[t].ret = Bool(FALSE) /\ PoolUnchanged(t)

-----------------------------------------------------------------------------
(* get_next_client called by downloads and story listings that run together *)

\* a pool of two or three sessions that no one registers to or deregisters from,
\* and a user who is never refused for quota
InitPick ==
    /\ users = [u \in {1} |-> StoredUser(1, "ULTRA", Some(MaxTime + 1), 0, 60, 0)]
    /\ codes = << >>
    /\ active_sessions \in {<<"a", "b">>, <<"a", "b", "c">>}
    /\ sessions = {active_sessions[i] : i \in DOMAIN active_sessions}
    /\ session_rotation_index = 0
    /\ InitRest

NextPick ==
    \/ \E t \in Tasks : CallDownloadStory(t, 1)
    \/ \E t \in Tasks : CallFetchStories(t)
    \/ \E t \in Tasks :
          \/ dl_get_user(t)
          \/ cs_get_user(t)
          \/ dl_limit(t)
          \/ Served(t)
          \/ dl_save_load(t)
          \/ dl_save_write(t)
          \/ fetch_stories(t)

SpecPick == InitPick /\ [][NextPick]_vars

-----------------------------------------------------------------------------
(* Claims about concurrent callers of get_next_client (SpecPick) *)

\* C15: however downloads and story listings interleave on an unchanged pool of
\* K >= 2 sessions, the k-th call of get_next_client in execution order reads
\* index (c0 + k) mod K, c0 being the cursor at the start, and gets the session
\* there; the cursor has then advanced once for every call, and two callers that
\* follow one another never hold the same session.
C15_AdvancesInOrder ==
    LET K == Len(active_sessions) IN
    /\ \A k \in DOMAIN picked :
          /\ picked[k].index = (0 + k) % K
          /\ picked[k].client = Some(active_sessions[picked[k].index + 1])
          /\ k > 1 => picked[k].client # picked[k - 1].client
    /\ session_rotation_index = Len(picked) % K
    /\ \A t \in Tasks :
          tasks[t].client # None =>
              \E k \in DOMAIN picked : picked[k].client = tasks[t].client

\* a download and a story listing are in flight together, each with the session
\* of its own advance
C15_Witness ==
    \E t, u \in Tasks :
        /\ tasks[t].op = "download_story" /\ tasks[t].pc = "dl_fetch"
        /\ tasks[u].op = "fetch_stories" /\ tasks[u].pc = "fs_stories"
        /\ tasks[t].client # tasks[u].client
        /\ Len(picked) >= 2

-----------------------------------------------------------------------------
(* scheduled_tasks on its own *)

\* two registered users, each with a stored subscription and a last reset two
\* ticks, one tick or no tick before the start
InitSweep ==
    /\ \E te1 \in TierAndEnds, lr1 \in {-TicksPerDay, -1, 0},
          te2 \in {<<"FREE", None>>, <<"PREMIUM", Some(-1)>>, <<"PREMIUM", Some(1)>>},
          lr2 \in {-TicksPerDay, 0} :
          users = [u \in {1, 2} |->
                      IF u = 1 THEN StoredUser(1, te1[1], te1[2], 3, 7, lr1)
                      ELSE StoredUser(2, te2[1], te2[2], 3, 7, lr2)]
    /\ codes = << >>
    /\ NoSessions
    /\ InitRest

NextSweep ==
    \/ Tick
    \/ CallScheduledTasks
    \/ scheduled_tasks

SpecSweep == InitSweep /\ [][NextSweep]_vars

-----------------------------------------------------------------------------
(* Claims about scheduled_tasks (SpecSweep) *)

\* the job has come to its end, by return or by exception
SweepEnded == sweep.pc = "done"

\* the job has returned
SweepCompleted == SweepEnded /\ sweep.raised = ""

\* the users stored when the job began
SweepPreUsers == sweep.pre[1].users

\* C18 as claimed: a failure of the quota-reset phase does not keep the expiry
\* sweep and the cache prune from running, and a failure of the expiry sweep does
\* not keep the cache prune from running.
C18_LaterPhasesRun ==
    SweepEnded =>
        /\ sweep.raised = "reset" => {"expiry", "prune"} \subseteq sweep.ran
        /\ sweep.raised = "expiry" => "prune" \in sweep.ran

\* C19: after the job has returned, every user stored with an expiry that had
\* passed when it began is stored as Free without expiry, every user without
\* expiry or with an expiry still to come when it ended has kept tier and
\* expiry, and a failed notification has neither ended the job nor kept the
\* user it was for, or any other, from being downgraded.
C19_SweepDowngrades ==
    SweepCompleted =>
        /\ DOMAIN users = DOMAIN SweepPreUsers
        /\ \A u \in DOMAIN SweepPreUsers :
              LET j == SweepPreUsers[u] IN
              /\ (j.subscription_ends # None
                    /\ FromIso(j.subscription_ends) < sweep.pre[1].now) =>
                    /\ users[u].subscription_tier = "free"
                    /\ users[u].subscription_ends = None
              /\ (j.subscription_ends = None
                    \/ FromIso(j.subscription_ends) >= sweep.until) =>
                    /\ users[u].subscription_tier = j.subscription_tier
                    /\ users[u].subscription_ends = j.subscription_ends
        /\ \A u \in sweep.unnotified :
              /\ users[u].subscription_tier = "free"
              /\ users[u].subscription_ends = None

\* two users were past their expiry, the notification of the first failed, and
\* both are stored as Free
C19_Witness ==
    /\ SweepCompleted
    /\ 1 \in sweep.unnotified
    /\ \A u \in {1, 2} :
          /\ SweepPreUsers[u].subscription_tier = "premium"
          /\ users[u].subscription_tier = "free"
          /\ users[u].subscription_ends = None

\* the calendar day a time falls on
DayOf(t) == t \div TicksPerDay

\* the daily count and the last reset of user u are what they were when the job
\* began
ResetLeftAlone(u) ==
    /\ users[u].daily_downloads = SweepPreUsers[u].daily_downloads
    /\ users[u].last_reset = SweepPreUsers[u].last_reset

\* the daily count of user u is 0 and the last reset is the time of the sweep
ResetMade(u) ==
    /\ users[u].daily_downloads = 0
    /\ users[u].last_reset = Iso(sweep.reset_at)

\* C20 as claimed: after the quota-reset phase every user whose last reset is
\* dated before the day of the sweep has daily count 0 and last reset stamped to
\* the sweep time, and every user whose last reset is dated that day keeps both.
C20_ResetIfDatedBeforeToday ==
    "reset" \in sweep.ran =>
        \A u \in DOMAIN SweepPreUsers :
            IF DayOf(FromIso(SweepPreUsers[u].last_reset)) < DayOf(sweep.reset_at)
            THEN ResetMade(u)
            ELSE ResetLeftAlone(u)

\* C20 as amended: after the quota-reset phase every user whose last reset is one
\* whole day or more before the sweep time has daily count 0 and last reset
\* stamped to the sweep time, and every other user keeps both.
C20_ResetIfDayElapsed ==
    "reset" \in sweep.ran =>
        \A u \in DOMAIN SweepPreUsers :
            IF DueAt(SweepPreUsers[u], sweep.reset_at)
            THEN ResetMade(u)
            ELSE ResetLeftAlone(u)

\* the quota-reset phase has reset one user and left the other, whose last reset
\* is of the day before but less than a day old
C20_Witness ==
    /\ "reset" \in sweep.ran
    /\ DueAt(SweepPreUsers[2], sweep.reset_at) /\ ResetMade(2)
    /\ ~DueAt(SweepPreUsers[1], sweep.reset_at) /\ ResetLeftAlone(1)
    /\ DayOf(FromIso(SweepPreUsers[1].last_reset)) < DayOf(sweep.reset_at)
    /\ SweepPreUsers[1].daily_downloads > 0

-----------------------------------------------------------------------------
(* Claims about check_subscription inside download_story (SpecDl) *)

\* the first check_subscription of a download_story call has just returned
StatusJustChecked(t) ==
    /\ tasks[t].op = "download_story"
    /\ tasks[t].pc = "dl_limit"
    /\ tasks[t].retries = 0

\* C21 as claimed: for a user whose last reset is a day old or more, the next
\* check_subscription stores daily count 0 and stamps the last reset with the
\* time of the call, and no check_subscription resets the count again within a
\* day of that, whatever downloads happen in between.
C21_ResetOncePerDay ==
    /\ \A t \in Tasks :
          StatusJustChecked(t) /\ PreRegistered(t)
             /\ DueAt(PreUser(t), tasks[t].pre[1].now) =>
              /\ users[tasks[t].user_id].daily_downloads = 0
              /\ FromIso(users[tasks[t].user_id].last_reset) >= tasks[t].pre[1].now
    /\ \A u \in UserIds :
          \A i, j \in DOMAIN log.resets[u] :
              i < j => log.resets[u][j] - log.resets[u][i] >= TicksPerDay

\* the first check_subscription of a download_story call has returned
StatusChecked(t) ==
    /\ tasks[t].op = "download_story"
    /\ \/ tasks[t].retries > 0
       \/ tasks[t].pc \notin {"dl_get_user", "cs_get_user", "cs_expired_load",
                              "cs_expired_write", "cs_reset_load", "cs_reset_write"}

\* C22 as claimed: once check_subscription has demoted an expired user and saved
\* tier Free without expiry, the stored record stays so (no code is redeemed
\* here); the download_story call that caused the demotion does not store the
\* expired tier and expiry again when it saves the download.
C22_DemotionStays ==
    \A t \in Tasks :
        StatusChecked(t) /\ ExpiredAtCall(t) =>
            /\ users[tasks[t].user_id].subscription_tier = "free"
            /\ users[tasks[t].user_id].subscription_ends = None

\* C25 as claimed: a download_story call made when the user's daily reset is due
\* is not refused for quota, the count after the reset being 0, and when it
\* succeeds the stored daily count is 1 and the last reset is the time of the
\* reset made in the call.
C25_QuotaAfterReset ==
    \A t \in Returned("download_story") :
        PreRegistered(t) /\ DueAt(PreUser(t), tasks[t].pre[1].now) =>
            /\ tasks[t].ret # DailyLimitReached
            /\ tasks[t].ret = FilePath =>
                  /\ users[tasks[t].user_id].daily_downloads = 1
                  /\ FromIso(users[tasks[t].user_id].last_reset) \in During(t)

-----------------------------------------------------------------------------
(* Claims about the task ids of the active-task registry (SpecAdmit) *)

\* the handlers of a user that are between the append of line 597 and the
\* finally block, holding the task id x
HoldersOf(user_id, x) ==
    {h \in Tasks : /\ handlers[h].user_id = user_id
                   /\ handlers[h].pc \in {"ds_download", "ds_report", "ds_edit"}
                   /\ handlers[h].task_id = Some(x)}

\* how often x occurs in the list s
Occurrences(s, x) == Cardinality({i \in DOMAIN s : s[i] = x})

\* none of the user's download requests is running
NoneRunning(user_id) ==
    \A h \in Tasks :
        handlers[h].user_id = user_id => handlers[h].pc \in {"idle", "done"}

\* C23 as claimed: every task id appended to a user's list of the active-task
\* registry is removed when the download returns, whether it succeeded, failed or
\* raised: the list holds exactly the task ids of the user's downloads that are
\* running, so it is empty whenever none is running, and a request refused at
\* admission adds no entry.
C23_RegistryHoldsRunning ==
    \A u \in UserIds :
        /\ \A x \in {TaskId(u, t) : t \in 0..MaxTime} :
              Occurrences(ActiveDownloadsGet(u), x) = Cardinality(HoldersOf(u, x))
        /\ \A i \in DOMAIN ActiveDownloadsGet(u) :
              HoldersOf(u, ActiveDownloadsGet(u)[i]) # {}
        /\ NoneRunning(u) => ActiveDownloadsGet(u) = << >>

\* one download was sent and another raised after its task id was appended, and
\* the user's list is empty again
C23_Witness ==
    /\ handlers[1].pc = "done" /\ handlers[1].outcome = "sent"
    /\ handlers[2].pc = "done" /\ handlers[2].outcome = "raised"
    /\ handlers[2].task_id # None /\ tasks[2].op = "download_story"
    /\ 1 \in DOMAIN active_downloads /\ active_downloads[1] = << >>

\* a request was refused at admission while another download was running, and
\* the list holds the running one only
C23_WitnessRefused ==
    /\ handlers[1].pc = "ds_download"
    /\ handlers[2].pc = "done" /\ handlers[2].outcome = "refused"
    /\ active_downloads[1] = <<handlers[1].task_id[1]>>

-----------------------------------------------------------------------------
(* Issuing codes: two admin coroutines call create_code while the clock moves *)

\* codes.json is empty, or holds a code issued earlier and redeemed once
InitIssue ==
    /\ users = << >>
    /\ \/ codes = << >>
       \/ LET cd == SubscriptionCode(Token("PREMIUM", 30, -1), "PREMIUM", 30, 2,
                                     None, -1) IN
             codes = [c \in {cd.code} |-> CodeToJson([cd EXCEPT !.used_count = 1])]
    /\ NoSessions
    /\ InitRest

\* the arguments of the calls: tier, max_uses, expires_in_days (the duration is 30)
IssueRequests ==
    {<<"PREMIUM", 1, None>>, <<"PREMIUM", 2, Some(1)>>, <<"ULTRA", 1, Some(0)>>}

NextIssue ==
    \/ \E t \in Tasks, r \in IssueRequests :
          CallCreateCode(t, r[1], 30, r[2], r[3])
    \/ \E t \in Tasks : create_code(t)
    \/ Tick

SpecIssue == InitIssue /\ [][NextIssue]_vars

-----------------------------------------------------------------------------
(* Claims about create_code (SpecIssue) *)

\* task t returns from create_code in this step
IssueReturns(t) ==
    /\ tasks[t].op = "create_code"
    /\ tasks[t].pc = "cc_save_write"
    /\ tasks'[t].pc = "done"

\* C24 as claimed: create_code never replaces or alters a stored code record:
\* every call stores exactly one new record, with used_count 0 and the tier,
\* duration and max_uses asked for, under a token that no stored record has,
\* also when two calls with the same tier and duration are made at the same time.
C24_IssueAddsOneRecord ==
    [][\A t \in Tasks :
          IssueReturns(t) =>
              /\ tasks'[t].ret \notin DOMAIN codes
              /\ DOMAIN codes' = DOMAIN codes \cup {tasks'[t].ret}
              /\ \A c \in DOMAIN codes : codes'[c] = codes[c]
              /\ codes'[tasks'[t].ret] = CodeToJson(tasks[t].code_data[1])
              /\ codes'[tasks'[t].ret].used_count = 0]_vars

\* two calls made one after the other at the same time with the same tier and
\* duration: the second returns the token of the first
C24_SameToken ==
    /\ tasks[1].op = "create_code" /\ tasks[1].pc = "done"
    /\ tasks[2].op = "create_code" /\ tasks[2].pc = "done"
    /\ tasks[1].until <= tasks[2].pre[1].now
    /\ tasks[1].ret \in DOMAIN tasks[2].pre[1].codes
    /\ tasks[2].ret = tasks[1].ret

-----------------------------------------------------------------------------
(* Claims about the redemption count under interleaving (SpecRace) *)

\* C26 as claimed: however calls of activate_code on a code interleave, the stored
\* used_count is at most max_uses, and once all the calls have returned it equals
\* the number of calls on the code that returned success.
C26_CountEqualsSuccesses ==
    \A c \in DOMAIN codes :
        /\ codes[c].used_count <= codes[c].max_uses
        /\ (\A t \in Tasks : ~Running(t)) => codes[c].used_count = successes[c]

-----------------------------------------------------------------------------
(* Claims about the names of the session pool (SpecPool) *)

\* C27 as claimed: after any sequence of add_session, remove_session and
\* get_next_client calls, the active list holds no name twice and the names of the
\* active list are the keys of the session store.
C27_NamesOnceAndStored ==
    (\A t \in Tasks : ~Running(t)) =>
        /\ \A i, j \in DOMAIN active_sessions :
              active_sessions[i] = active_sessions[j] => i = j
        /\ {active_sessions[i] : i \in DOMAIN active_sessions} = sessions

-----------------------------------------------------------------------------
(* Claims about the lifetime count under interleaving (SpecDlConc) *)

\* C28 as claimed: however a user's download_story calls interleave, the stored
\* total_downloads never decreases, and once all the calls have returned it is
\* its earlier value plus the number of calls that succeeded.
C28_LifetimeCountsSuccesses ==
    /\ [][\A u \in DOMAIN users :
             users'[u].total_downloads >= users[u].total_downloads]_vars
    /\ []((\A t \in Tasks : ~Running(t)) =>
             \A u \in DOMAIN users :
                 users[u].total_downloads =
                     log.total_downloads[u] + log.downloads[u])

\* three downloads have succeeded and the stored lifetime count is one higher
\* than it was
C28_LostDownloads ==
    \E u \in DOMAIN users :
        /\ log.downloads[u] = 3
        /\ users[u].total_downloads = log.total_downloads[u] + 1
        /\ \A t \in Tasks : ~Running(t)

-----------------------------------------------------------------------------
(* scheduled_tasks while a handler's coroutine runs *)

\* user 1 is Premium past the expiry, user 2 is Free with the daily reset due or
\* not; one Premium code has been issued
InitSweepConc ==
    /\ \E lr2 \in {-TicksPerDay, 0} :
          users = [u \in {1, 2} |->
                      IF u = 1 THEN StoredUser(1, "PREMIUM", Some(-1), 3, 7, 0)
                      ELSE StoredUser(2, "FREE", None, 3, 7, lr2)]
    /\ LET cd == SubscriptionCode("ABCD1234WXYZ", "PREMIUM", 30, 1, None, -1) IN
          codes = [c \in {cd.code} |-> CodeToJson(cd)]
    /\ NoSessions
    /\ InitRest

\* the job and one coroutine that redeems the code or asks for a user's status;
\* the clock stands still
NextSweepConc ==
    \/ CallScheduledTasks
    \/ scheduled_tasks
    \/ \E u \in UserIds : CallActivateCode(1, u, "ABCD1234WXYZ")
    \/ activate_code(1)
    \/ \E u \in UserIds : CallCheckSubscription(1, u)
    \/ check_subscription(1)

SpecSweepConc == InitSweepConc /\ [][NextSweepConc]_vars

-----------------------------------------------------------------------------
(* Claims about scheduled_tasks beside other coroutines (SpecSweepConc) *)

\* the job saves users.json in this step
SweepSaves ==
    /\ sweep.pc \in {"st_save_reset", "st_save_expired"}
    /\ users' # users

\* record j2 is record j but for what the job does to it: the daily count and
\* the last reset if the reset was due, the tier and the expiry if the
\* subscription has run out
SweptFrom(j, j2) ==
    \E reset, down \in BOOLEAN :
        /\ reset => DueAt(j, sweep.reset_at)
        /\ down => SweepExpired(j, now)
        /\ j2 = [j EXCEPT
                   !.daily_downloads = IF reset THEN 0 ELSE @,
                   !.last_reset = IF reset THEN Iso(sweep.reset_at) ELSE @,
                   !.subscription_tier = IF down THEN "free" ELSE @,
                   !.subscription_ends = IF down THEN None ELSE @]

\* C29 as claimed: what activate_code or check_subscription has stored for a user
\* while the job was between its load of users.json and its last save is still
\* stored after the job's saves: a save of the job changes of the stored records
\* only the daily count and the last reset of the users it resets and the tier
\* and the expiry of the users it downgrades.
C29_SweepKeepsOtherWrites ==
    [][SweepSaves =>
          /\ DOMAIN users' = DOMAIN users
          /\ \A u \in DOMAIN users : SweptFrom(users[u], users'[u])]_vars

\* user 2 redeemed the code after the job had loaded users.json, the call
\* returned success before the job's last save, and after the job user 2 is
\* stored as Free
C29_UpgradeLost ==
    /\ SweepCompleted
    /\ tasks[1].op = "activate_code" /\ tasks[1].pc = "done"
    /\ tasks[1].ret = <<TRUE, Activated>>
    /\ tasks[1].user_id = 2
    /\ tasks[1].pre[1].users[2].subscription_tier = "free"
    /\ sweep.pre[1].codes["ABCD1234WXYZ"].used_count = 0
    /\ codes["ABCD1234WXYZ"].used_count = 1
    /\ calls = 2
    /\ users[2].subscription_tier = "free"

====
